---- MODULE Spec2Model ----
(***************************************************************************)
(* Verification model of the remote item search of syncify / musify:       *)
(* RemoteItemSearcher (musify/libraries/remote/core/processors/search.py)  *)
(* with the item equality of syncify/abstract/item.py.                     *)
(*                                                                         *)
(* A batch of collections is searched by an outer thread pool (one task    *)
(* per collection); each collection task runs inner pools for its items.   *)
(* Every step that reads or writes an item's uri is an action of its own,  *)
(* so that the interleavings of the threads are the behaviours of Spec.    *)
(***************************************************************************)
EXTENDS Integers, Sequences, FiniteSets, TLC

\* ------------------------------------------------------------------ bounds
MaxItems == 2      \* item objects of a batch
MaxColls == 2      \* collections of a batch
MaxResp == 2       \* responses a remote query returns at most

Items == 1..MaxItems
Colls == 1..MaxColls

\* ------------------------------------------------------------ item values
NoURI == "none"                 \* uri is None: has_uri is None (unknown)
Unavailable == "unavailable"    \* the unavailable-URI dummy: has_uri is False
URIs == {"u1", "u2"}            \* real URIs

\* has_uri of an item that holds uri value u
has_uri(u) == IF u = NoURI THEN "None" ELSE IF u = Unavailable THEN "False" ELSE "True"

\* has_uri of a remote candidate: a candidate flagged is_local has no valid URI
Local == "local"
NoMatch == "nomatch"
Raise == "raise"
Pending == "pending"

\* ------------------------------------------------------------ search config
\* a TRACK configuration whose third field-set is unset, as ALBUM's is
TRACK_NoThird == [search_fields_1 |-> {"name", "artist"}, search_fields_2 |-> {"name", "album"},
                  search_fields_3 |-> {},
                  min_score |-> 10, max_score |-> 80, allow_karaoke |-> FALSE]

\* search_settings: per remote object kind the field-sets of the cascade, the
\* score thresholds (in hundredths) and the karaoke allowance
TRACK == [search_fields_1 |-> {"name", "artist"}, search_fields_2 |-> {"name", "album"},
          search_fields_3 |-> {"name"},
          min_score |-> 10, max_score |-> 80, allow_karaoke |-> FALSE]
ALBUM == [search_fields_1 |-> {"name", "artist"}, search_fields_2 |-> {"name"},
          search_fields_3 |-> {},
          min_score |-> 10, max_score |-> 70, allow_karaoke |-> FALSE]

VARIABLES
    item,           \* input: per item its name, kind attribute and the remote's answers
    coll,           \* input: the batch, per collection its items, flags and the remote's answers
    uri0,           \* the uri of every item when search was called
    uri,            \* the uri of every item (has_uri derives from it)
    mainPc,         \* position of the thread that called search()
    mainIdx,        \* index of the next future the caller collects
    search_results, \* the map search() builds: collection name -> ItemSearchResult
    fut,            \* state of each collection's future in the outer pool
    pc,             \* position of each collection task in _search_collection
    skipped,        \* each task's skipped tuple
    exc,            \* the exception each collection's future holds, by where it was raised
    utasks,         \* each task's inner pool of the unit search: sequence of [item, res]
    itasks,         \* each task's inner pool of the item search: sequence of [item, res]
    ci,             \* each task's index in its commit loop / extend loop
    result,         \* each task's returned ItemSearchResult
    calls,          \* per collection the remote calls made: album and track queries, extend_items
    plan,           \* the query planner run on its own: settings, answers, position, queries made
    cname,          \* input: the name of every collection
    order,          \* the keys of search_results in insertion order (the dict's iteration order)
    summary,        \* the summaries that _log_results has reported, each its rows and totals
    mt,             \* a call of match() run on its own: responses, arguments, scan position, outcome
    chk,            \* the interactive check run on its own: groups, their items' uris, decisions
    ser,            \* serialize and deserialize applied to a value: the value and the outputs
    repo,           \* a response repository (SQLiteTable) and the session over it
    lib,            \* a library's playlists and the result of get_filtered_playlists
    xpf,            \* an XAutoPF playlist: its file, stored XML, tracks and matcher paths
    wr,             \* a call of validate_item_type: its arguments and its outcome
    leg,            \* the legacy ItemSearcher.search on one collection
    pg,             \* a collection response and the pages _get_collection_items requests
    ap,             \* a remote playlist and a call of add_to_playlist
    rs,             \* Syncify.restore: the backups found, the prompts and what was restored
    ic              \* an ItemCollection and a call of pop

vars == <<item, coll, uri0, uri, mainPc, mainIdx, search_results, fut, pc, skipped, exc,
          utasks, itasks, ci, result, calls, plan, cname, order, summary, mt, chk, ser, repo,
          lib, xpf, wr, leg, pg, ap, rs, ic>>

\* what no step of search() changes: its inputs and the planner run on its own
inputs == <<item, coll, uri0, plan, cname, mt, chk, ser, repo,
            lib, xpf, wr, leg, pg, ap, rs, ic>>

\* --------------------------------------------------------------- helpers
Range(s) == {s[k] : k \in DOMAIN s}

\* Item.__eq__: URIs equal if at least one item has a URI, names equal otherwise
ItemEq(i, j) ==
    IF has_uri(uri[i]) = "True" \/ has_uri(uri[j]) = "True"
    THEN has_uri(uri[i]) = has_uri(uri[j]) /\ uri[i] = uri[j]
    ELSE item[i].name = item[j].name

\* the membership test of _search_collection's result: `item not in skipped`
\* (Python's `x in tuple`: identity first, then __eq__)
NotInSkipped(i, t) == ~(\E k \in DOMAIN t : t[k] = i \/ ItemEq(t[k], i))

\* _get_results: the query cascade; ans[k] is the number of results the remote
\* returns for the query built from field-set k. Returns the field-sets queried
\* in order and the number of results returned (0 stands for None).
GetResults(settings, ans) ==
    LET r1 == ans[1]
        q2 == r1 = 0 /\ settings.search_fields_2 # {}
        r2 == IF q2 THEN ans[2] ELSE r1
        q3 == r2 = 0 /\ settings.search_fields_3 # {}
        r3 == IF q3 THEN ans[3] ELSE r2
    IN  [queries |-> <<1>> \o (IF q2 THEN <<2>> ELSE <<>>) \o (IF q3 THEN <<3>> ELSE <<>>),
         results |-> r3]

\* the remote's answers to the cascade of an object whose first non-empty
\* field-set is `hit` (0: none), with n results there
Answers(hit, n) == [k \in 1..3 |-> IF k = hit THEN n ELSE 0]

\* the filter left out: every item of the collection is taken
UnknownNoFilter(c) == coll[c].items

\* filter(lambda i: i.has_uri is None, collection)
Unknown(c) == SelectSeq(coll[c].items, LAMBDA i : has_uri(uri[i]) = "None")

\* collection.name
name(c) == cname[c]

\* executor.map submits one task per item of the filtered iterable
Submit(s) == [k \in DOMAIN s |-> [item |-> s[k], res |-> Pending]]

AllDone(ts) == \A k \in DOMAIN ts : ts[k].res # Pending

\* ------------------------------------------------------------------ inputs
\* What the remote holds for an item: the first field-set of the TRACK cascade
\* that returns results (0: none does), the candidate match() picks among them,
\* and the candidate match() picks for the item by title among the tracks of a
\* matched album. A track found by query has URI u1, one found in an album u2.
Remote(hit, track, title) == [trackHit |-> hit, trackMatch |-> track, titleMatch |-> title]

\* An item when search is called: its uri, its name, whether it carries a `kind`
\* attribute, and the remote's answers for it. The remote holds a match for
\* every item that already carries a URI or the unavailable marker; the answers
\* for an item without a kind are never asked for.
ItemInputs ==
    { r \in [uri : {NoURI, Unavailable, "u1"}, name : {"x", "y"}, hasKind : BOOLEAN,
            remote : { Remote(0, NoMatch, NoMatch), Remote(3, NoMatch, "u2"),
            Remote(1, "u1", NoMatch), Remote(1, "u1", "u2"), Remote(2, Local, Local) }] :
        /\ r.uri # NoURI => r.hasKind /\ r.remote = Remote(1, "u1", "u2")
        /\ ~r.hasKind => r.remote = Remote(0, NoMatch, NoMatch) }

\* What the remote holds for a collection: the first field-set of the ALBUM
\* cascade that returns results (0: none does), how many results, and whether
\* match() picks one of them.
Album(hit, resp, match) == [albumHit |-> hit, albumResp |-> resp, albumMatch |-> match]

\* A collection: its items, the compilation flag (absent counts as
\* True), whether it carries a `kind` attribute, and the remote's answers for it
\* (which only a collection searched as a unit with a kind can meet)
CollInputs ==
    { r \in [items : ({ s \in UNION { [1..n -> Items] : n \in 1..MaxItems } : \A k \in DOMAIN s : k > 1 => s[k-1] < s[k] }),
            compilation : BOOLEAN, hasKind : BOOLEAN,
            album : { Album(0, 1, FALSE), Album(1, 1, FALSE),
            Album(1, 1, TRUE), Album(2, MaxResp, TRUE) }] :
        /\ r.compilation => r.hasKind
        /\ (r.compilation \/ ~r.hasKind) => r.album = Album(0, 1, FALSE) }

\* the library, the playlist file, the wrangler, the legacy searcher, the
\* pager, the playlist call, the restore and the collection are not in use,
\* but for the one named
LaterIdle(but) ==
    /\ IF but = "lib" THEN TRUE ELSE lib = [pc |-> "none"]
    /\ IF but = "xpf" THEN TRUE ELSE xpf = [pc |-> "none"]
    /\ IF but = "wr" THEN TRUE ELSE wr = [pc |-> "none"]
    /\ IF but = "leg" THEN TRUE ELSE leg = [pc |-> "none"]
    /\ IF but = "pg" THEN TRUE ELSE pg = [pc |-> "none"]
    /\ IF but = "ap" THEN TRUE ELSE ap = [pc |-> "none"]
    /\ IF but = "rs" THEN TRUE ELSE rs = [pc |-> "none"]
    /\ IF but = "ic" THEN TRUE ELSE ic = [pc |-> "none"]
NoCalls == [album |-> 0, track |-> 0, extend |-> 0]
NoResult == [matched |-> <<>>, unmatched |-> <<>>, skipped |-> <<>>]

Init ==
    /\ item \in [Items -> ItemInputs]
    /\ item[1].name = "x"
    /\ coll \in [Colls -> CollInputs]
    /\ \A i \in Items : \E c \in Colls : i \in Range(coll[c].items)
    /\ uri0 = [i \in Items |-> item[i].uri]
    /\ uri = uri0
    /\ mainPc = "start"
    /\ mainIdx = 1
    /\ search_results = <<>>
    /\ fut = [c \in Colls |-> "none"]
    /\ pc = [c \in Colls |-> "idle"]
    /\ skipped = [c \in Colls |-> <<>>]
    /\ exc = [c \in Colls |-> "none"]
    /\ utasks = [c \in Colls |-> <<>>]
    /\ itasks = [c \in Colls |-> <<>>]
    /\ ci = [c \in Colls |-> 0]
    /\ result = [c \in Colls |-> NoResult]
    /\ calls = [c \in Colls |-> NoCalls]
    /\ plan = [pc |-> "none"]
    /\ mt = [pc |-> "none"]
    /\ chk = [pc |-> "none"]
    /\ ser = [pc |-> "none"]
    /\ repo = [pc |-> "none"]
    /\ LaterIdle("")
    /\ cname = [c \in Colls |-> c]
    /\ order = <<>>
    /\ summary = <<>>

\* d[n] = v of a Python dict: the map, and its keys in insertion order (a key
\* that is already present keeps its place)
DictSet(d, n, v) == [m \in DOMAIN d \cup {n} |-> IF m = n THEN v ELSE d[m]]

DictKeys(keys, d, n) == IF n \in DOMAIN d THEN keys ELSE Append(keys, n)

\* _log_results, lines 146-165: one pass of the loop over results.items(); the
\* row's total is taken from the running totals before the row is added
LogStep(acc, n, r) ==
    LET total == acc.total_matched + acc.total_unmatched + acc.total_skipped
    IN  [total_matched |-> acc.total_matched + Len(r.matched),
         total_unmatched |-> acc.total_unmatched + Len(r.unmatched),
         total_skipped |-> acc.total_skipped + Len(r.skipped),
         total_all |-> acc.total_all + total,
         rows |-> Append(acc.rows, [name |-> n, matched |-> Len(r.matched),
                                    unmatched |-> Len(r.unmatched),
                                    skipped |-> Len(r.skipped), total |-> total])]

RECURSIVE LogFold(_, _, _)
LogFold(results, keys, k) ==
    IF k = 0
    THEN [total_matched |-> 0, total_unmatched |-> 0, total_skipped |-> 0, total_all |-> 0,
          rows |-> <<>>]
    ELSE LogStep(LogFold(results, keys, k - 1), keys[k], results[keys[k]])

\* _log_results: nothing for an empty map, else the rows and the TOTALS row
LogResults(results, keys) ==
    IF keys = <<>> THEN <<>> ELSE << LogFold(results, keys, Len(keys)) >>

\* search() without the early return: the tasks are always submitted
SearchStartAlways ==
    /\ mainPc = "start"
    /\ mainPc' = "collect"
    /\ fut' = [c \in Colls |-> "pending"]
    /\ UNCHANGED <<inputs, uri, mainIdx, search_results, order, summary, pc, skipped, exc, utasks, itasks, ci,
                   result, calls>>

\* a caller that swallows a task's exception and records an empty result for it
SearchCollectSwallow ==
    /\ mainPc = "collect"
    /\ mainIdx \in Colls
    /\ fut[mainIdx] \in {"done", "raised"}
    /\ search_results' = DictSet(search_results, name(mainIdx), result[mainIdx])
    /\ order' = DictKeys(order, search_results, name(mainIdx))
    /\ mainIdx' = mainIdx + 1
    /\ IF mainIdx = MaxColls
       THEN /\ mainPc' = "returned"
            /\ summary' = summary \o LogResults(search_results', order')
       ELSE /\ mainPc' = "collect"
            /\ summary' = summary
    /\ UNCHANGED <<inputs, uri, fut, pc, skipped, exc, utasks, itasks, ci, result, calls>>

\* ----------------------------------------------------------- search(): caller
\* search, lines 194-208: return {} when no item of the batch is unknown,
\* else submit one task per collection to the outer pool
SearchStart ==
    /\ mainPc = "start"
    /\ IF \A c \in Colls : Unknown(c) = <<>>
       THEN /\ mainPc' = "returned"
            /\ fut' = fut
       ELSE /\ mainPc' = "collect"
            /\ fut' = [c \in Colls |-> "pending"]
    /\ UNCHANGED <<inputs, uri, mainIdx, search_results, order, summary, pc, skipped, exc, utasks, itasks, ci, result, calls>>

\* a caller that takes the results as the tasks complete (as_completed)
SearchCollectAsCompleted ==
    /\ mainPc = "collect"
    /\ mainIdx \in Colls
    /\ \E c \in Colls :
          /\ fut[c] = "done"
          /\ search_results' = DictSet(search_results, name(c), result[c])
          /\ order' = DictKeys(order, search_results, name(c))
          /\ fut' = [fut EXCEPT ![c] = "collected"]
    /\ mainIdx' = mainIdx + 1
    /\ IF mainIdx = MaxColls
       THEN /\ mainPc' = "returned"
            /\ summary' = summary \o LogResults(search_results', order')
       ELSE /\ mainPc' = "collect"
            /\ summary' = summary
    /\ UNCHANGED <<inputs, uri, pc, skipped, exc, utasks, itasks, ci, result, calls>>

\* search, lines 207-213: dict(executor.map(...)), the caller takes the results
\* in input order; after the last one it leaves the pool, reports the summary
\* and returns the map
SearchCollect ==
    /\ mainPc = "collect"
    /\ mainIdx \in Colls
    /\ fut[mainIdx] = "done"
    /\ search_results' = DictSet(search_results, name(mainIdx), result[mainIdx])
    /\ order' = DictKeys(order, search_results, name(mainIdx))
    /\ mainIdx' = mainIdx + 1
    /\ IF mainIdx = MaxColls
       THEN /\ mainPc' = "returned"
            /\ summary' = summary \o LogResults(search_results', order')
       ELSE /\ mainPc' = "collect"
            /\ summary' = summary
    /\ UNCHANGED <<inputs, uri, fut, pc, skipped, exc, utasks, itasks, ci, result, calls>>

\* the result iterator of executor.map re-raises a task's exception and cancels
\* the futures that have not started
SearchAbort ==
    /\ mainPc = "collect"
    /\ mainIdx \in Colls
    /\ fut[mainIdx] = "raised"
    /\ fut' = [c \in Colls |-> IF fut[c] = "pending" THEN "cancelled" ELSE fut[c]]
    /\ mainPc' = "aborting"
    /\ UNCHANGED <<inputs, uri, mainIdx, search_results, order, summary, pc, skipped, exc, utasks, itasks, ci, result, calls>>

\* leaving the `with` block waits for the running tasks, then search() raises
SearchRaise ==
    /\ mainPc = "aborting"
    /\ \A c \in Colls : fut[c] # "running"
    /\ mainPc' = "raised"
    /\ search_results' = <<>>
    /\ order' = <<>>
    /\ UNCHANGED <<inputs, uri, mainIdx, summary, fut, pc, skipped, exc, utasks, itasks, ci, result, calls>>

\* ------------------------------------------------- _search_collection: tasks
\* a task ends by raising: its future holds the exception
Raised(c, where) ==
    /\ fut' = [fut EXCEPT ![c] = "raised"]
    /\ exc' = [exc EXCEPT ![c] = where]
    /\ pc' = [pc EXCEPT ![c] = "end"]

\* a worker of the outer pool takes the task; _search_collection, lines 216-232:
\* the skipped tuple, then the branch on the compilation flag
CollStart(c) ==
    /\ fut[c] = "pending"
    /\ fut' = [fut EXCEPT ![c] = "running"]
    /\ skipped' = [skipped EXCEPT ![c] =
                     SelectSeq(coll[c].items, LAMBDA i : has_uri(uri[i]) # "None")]
    /\ pc' = [pc EXCEPT ![c] = IF coll[c].compilation THEN "items" ELSE "unit"]
    /\ UNCHANGED <<inputs, uri, mainPc, mainIdx, search_results, order, summary, exc, utasks, itasks, ci,
                   result, calls>>

\* _search_collection_unit, lines 276-283: return when every item has a URI,
\* determine the kind (raises without one), run the ALBUM cascade; iterating
\* the responses raises when the cascade returned None
UnitQuery(c) ==
    /\ fut[c] = "running" /\ pc[c] = "unit"
    /\ IF \A k \in DOMAIN coll[c].items : has_uri(uri[coll[c].items[k]]) = "True"
       THEN /\ pc' = [pc EXCEPT ![c] = "missing"]
            /\ UNCHANGED <<fut, exc, calls, ci>>
       ELSE IF ~coll[c].hasKind
       THEN /\ Raised(c, "unit_kind")
            /\ UNCHANGED <<calls, ci>>
       ELSE LET r == GetResults(ALBUM, Answers(coll[c].album.albumHit, coll[c].album.albumResp))
            IN  /\ calls' = [calls EXCEPT ![c].album = @ + Len(r.queries)]
                /\ IF r.results = 0
                   THEN Raised(c, "unit_responses") /\ UNCHANGED ci
                   ELSE /\ pc' = [pc EXCEPT ![c] = "extend"]
                        /\ ci' = [ci EXCEPT ![c] = 1]
                        /\ UNCHANGED <<fut, exc>>
    /\ UNCHANGED <<inputs, uri, mainPc, mainIdx, search_results, order, summary, skipped, utasks, itasks, result>>

\* _search_collection_unit, lines 284-285: one extend_items call per response
UnitExtend(c) ==
    /\ fut[c] = "running" /\ pc[c] = "extend"
    /\ ci[c] <= coll[c].album.albumResp
    /\ calls' = [calls EXCEPT ![c].extend = @ + 1]
    /\ ci' = [ci EXCEPT ![c] = @ + 1]
    /\ UNCHANGED <<inputs, uri, mainPc, mainIdx, search_results, order, summary, fut, pc, skipped, exc, utasks,
                   itasks, result>>

\* a unit search that, having matched the album, submits no title-only match
UnitMatchNoTasks(c) ==
    /\ fut[c] = "running" /\ pc[c] = "extend"
    /\ ci[c] > coll[c].album.albumResp
    /\ pc' = [pc EXCEPT ![c] = "missing"]
    /\ UNCHANGED <<inputs, uri, mainPc, mainIdx, search_results, order, summary, fut, skipped, exc, utasks,
                   itasks, ci, result, calls>>

\* _search_collection_unit, lines 289-307: match the collection against the
\* responses; without a match return, else submit one title-only match per
\* unknown item to the inner pool
UnitMatch(c) ==
    /\ fut[c] = "running" /\ pc[c] = "extend"
    /\ ci[c] > coll[c].album.albumResp
    /\ IF ~coll[c].album.albumMatch
       THEN /\ pc' = [pc EXCEPT ![c] = "missing"]
            /\ UNCHANGED <<utasks, ci>>
       ELSE /\ utasks' = [utasks EXCEPT ![c] = Submit(Unknown(c))]
            /\ ci' = [ci EXCEPT ![c] = 1]
            /\ pc' = [pc EXCEPT ![c] = "unit_tasks"]
    /\ UNCHANGED <<inputs, uri, mainPc, mainIdx, search_results, order, summary, fut, skipped, exc, itasks,
                   result, calls>>

\* _get_item_match with results given (lines 243-260), run by an inner worker:
\* the kind of the item is determined (raises without one), no query is made
TitleTask(c, k) ==
    /\ fut[c] = "running" /\ pc[c] = "unit_tasks"
    /\ k \in DOMAIN utasks[c] /\ utasks[c][k].res = Pending
    /\ utasks' = [utasks EXCEPT ![c][k].res =
                    IF ~item[utasks[c][k].item].hasKind THEN Raise
                    ELSE item[utasks[c][k].item].remote.titleMatch]
    /\ UNCHANGED <<inputs, uri, mainPc, mainIdx, search_results, order, summary, fut, pc, skipped, exc, itasks,
                   ci, result, calls>>

\* one pass of the commit loop over the results of an inner pool, which has been
\* shut down (lines 267-269 and 309-311): a task's exception is re-raised, a
\* match with a valid URI is written to the item; after the last pass, go on
CommitStep(c, ts, where, next) ==
    /\ fut[c] = "running"
    /\ AllDone(ts)
    /\ IF ci[c] > Len(ts)
       THEN /\ pc' = [pc EXCEPT ![c] = next]
            /\ UNCHANGED <<uri, fut, exc, ci>>
       ELSE IF ts[ci[c]].res = Raise
       THEN Raised(c, where) /\ UNCHANGED <<uri, ci>>
       ELSE /\ uri' = IF ts[ci[c]].res \in URIs
                      THEN [uri EXCEPT ![ts[ci[c]].item] = ts[ci[c]].res]
                      ELSE uri
            /\ ci' = [ci EXCEPT ![c] = @ + 1]
            /\ UNCHANGED <<fut, exc, pc>>
    /\ UNCHANGED <<inputs, mainPc, mainIdx, search_results, order, summary, skipped, utasks, itasks, result, calls>>

\* a unit search that hands over to the item search without its commit loop
UnitCommitSkipped(c) ==
    /\ fut[c] = "running" /\ pc[c] = "unit_tasks"
    /\ pc' = [pc EXCEPT ![c] = "missing"]
    /\ UNCHANGED <<inputs, uri, mainPc, mainIdx, search_results, order, summary, fut, skipped, exc, utasks,
                   itasks, ci, result, calls>>

\* _search_collection_unit, lines 309-311
UnitCommit(c) ==
    /\ pc[c] = "unit_tasks"
    /\ CommitStep(c, utasks[c], "unit_item", "missing")

\* _search_collection, lines 226-229: the items still unknown after the unit
\* search are searched one by one; _search_items, lines 264-265, submits them
SearchMissing(c) ==
    /\ fut[c] = "running" /\ pc[c] = "missing"
    /\ IF Unknown(c) # <<>>
       THEN /\ itasks' = [itasks EXCEPT ![c] = Submit(Unknown(c))]
            /\ ci' = [ci EXCEPT ![c] = 1]
            /\ pc' = [pc EXCEPT ![c] = "item_tasks"]
       ELSE /\ pc' = [pc EXCEPT ![c] = "result"]
            /\ UNCHANGED <<itasks, ci>>
    /\ UNCHANGED <<inputs, uri, mainPc, mainIdx, search_results, order, summary, fut, skipped, exc, utasks,
                   result, calls>>

\* _search_collection, line 232 and _search_items, lines 264-265
SearchItems(c) ==
    /\ fut[c] = "running" /\ pc[c] = "items"
    /\ itasks' = [itasks EXCEPT ![c] = Submit(Unknown(c))]
    /\ ci' = [ci EXCEPT ![c] = 1]
    /\ pc' = [pc EXCEPT ![c] = "item_tasks"]
    /\ UNCHANGED <<inputs, uri, mainPc, mainIdx, search_results, order, summary, fut, skipped, exc, utasks,
                   result, calls>>

\* _get_item_match without results (lines 243-260), run by an inner worker: the
\* kind of the item is determined (raises without one), the TRACK cascade is
\* run and match() picks a candidate among its results
ItemTask(c, k) ==
    /\ fut[c] = "running" /\ pc[c] = "item_tasks"
    /\ k \in DOMAIN itasks[c] /\ itasks[c][k].res = Pending
    /\ LET it == item[itasks[c][k].item]
           r == GetResults(TRACK, Answers(it.remote.trackHit, 1))
       IN  IF ~it.hasKind
           THEN /\ itasks' = [itasks EXCEPT ![c][k].res = Raise]
                /\ UNCHANGED calls
           ELSE /\ calls' = [calls EXCEPT ![c].track = @ + Len(r.queries)]
                /\ itasks' = [itasks EXCEPT ![c][k].res =
                                IF r.results = 0 THEN NoMatch ELSE it.remote.trackMatch]
    /\ UNCHANGED <<inputs, uri, mainPc, mainIdx, search_results, order, summary, fut, pc, skipped, exc, utasks,
                   ci, result>>

\* _search_items, lines 267-269
ItemCommit(c) ==
    /\ pc[c] = "item_tasks"
    /\ CommitStep(c, itasks[c], "items_item", "result")

\* the ItemSearchResult of _search_collection, lines 234-238
SearchResult(c) ==
    [matched |-> SelectSeq(coll[c].items,
                    LAMBDA i : has_uri(uri[i]) = "True" /\ NotInSkipped(i, skipped[c])),
     unmatched |-> SelectSeq(coll[c].items,
                    LAMBDA i : has_uri(uri[i]) = "None" /\ NotInSkipped(i, skipped[c])),
     skipped |-> skipped[c]]

\* _search_collection returns: the future holds the result
CollReturn(c) ==
    /\ fut[c] = "running" /\ pc[c] = "result"
    /\ result' = [result EXCEPT ![c] = SearchResult(c)]
    /\ fut' = [fut EXCEPT ![c] = "done"]
    /\ pc' = [pc EXCEPT ![c] = "end"]
    /\ UNCHANGED <<inputs, uri, mainPc, mainIdx, search_results, order, summary, skipped, exc, utasks, itasks,
                   ci, calls>>

Next ==
    \/ SearchStart
    \/ SearchCollect
    \/ SearchAbort
    \/ SearchRaise
    \/ \E c \in Colls :
        \/ CollStart(c)
        \/ UnitQuery(c)
        \/ UnitExtend(c)
        \/ UnitMatch(c)
        \/ UnitCommit(c)
        \/ SearchMissing(c)
        \/ SearchItems(c)
        \/ ItemCommit(c)
        \/ CollReturn(c)
        \/ \E k \in 1..MaxItems : TitleTask(c, k) \/ ItemTask(c, k)

Spec == Init /\ [][Next]_vars

\* ------------------------------------------- batches of collections by name

\* search() is called with a batch in which collections may share a name
InitNames ==
    /\ item \in [Items -> { r \in ItemInputs :
            r.name = "x" /\ r.uri # Unavailable /\ r.remote = Remote(1, "u1", "u2") }]
    /\ coll \in [Colls -> CollInputs]
    /\ \A i \in Items : \E c \in Colls : i \in Range(coll[c].items)
    /\ cname \in [Colls -> Colls]
    /\ uri0 = [i \in Items |-> item[i].uri]
    /\ uri = uri0
    /\ mainPc = "start"
    /\ mainIdx = 1
    /\ search_results = <<>>
    /\ order = <<>>
    /\ summary = <<>>
    /\ fut = [c \in Colls |-> "none"]
    /\ pc = [c \in Colls |-> "idle"]
    /\ skipped = [c \in Colls |-> <<>>]
    /\ exc = [c \in Colls |-> "none"]
    /\ utasks = [c \in Colls |-> <<>>]
    /\ itasks = [c \in Colls |-> <<>>]
    /\ ci = [c \in Colls |-> 0]
    /\ result = [c \in Colls |-> NoResult]
    /\ calls = [c \in Colls |-> NoCalls]
    /\ plan = [pc |-> "none"]
    /\ mt = [pc |-> "none"]
    /\ chk = [pc |-> "none"]
    /\ ser = [pc |-> "none"]
    /\ repo = [pc |-> "none"]
    /\ LaterIdle("")

SpecNames == InitNames /\ [][Next]_vars

\* ------------------------------------------------ the query planner, stepwise

\* the state of search() while the planner is run on its own
SearchIdle ==
    /\ item = [i \in Items |-> [uri |-> NoURI, name |-> "x", hasKind |-> TRUE,
                                remote |-> Remote(0, NoMatch, NoMatch)]]
    /\ coll = [c \in Colls |-> [items |-> <<1>>, compilation |-> TRUE, hasKind |-> TRUE,
                                album |-> Album(0, 1, FALSE)]]
    /\ uri0 = [i \in Items |-> NoURI]
    /\ uri = uri0
    /\ mainPc = "idle"
    /\ mainIdx = 1
    /\ search_results = <<>>
    /\ fut = [c \in Colls |-> "none"]
    /\ pc = [c \in Colls |-> "idle"]
    /\ skipped = [c \in Colls |-> <<>>]
    /\ exc = [c \in Colls |-> "none"]
    /\ utasks = [c \in Colls |-> <<>>]
    /\ itasks = [c \in Colls |-> <<>>]
    /\ ci = [c \in Colls |-> 0]
    /\ result = [c \in Colls |-> NoResult]
    /\ calls = [c \in Colls |-> NoCalls]
    /\ cname = [c \in Colls |-> c]
    /\ order = <<>>
    /\ summary = <<>>

searchVars == <<item, coll, uri0, uri, mainPc, mainIdx, search_results, fut, pc, skipped, exc,
                utasks, itasks, ci, result, calls, cname, order, summary>>

\* what the planner, the matcher, the check, the serializer and the repository,
\* each run on its own, leave alone
later == <<lib, xpf, wr, leg, pg, ap, rs, ic>>
earlier == <<searchVars, plan, mt, chk, ser, repo>>

\* the searcher, the planner, the matcher, the check, the serializer and the
\* repository are not in use
EarlierIdle ==
    /\ SearchIdle
    /\ plan = [pc |-> "none"]
    /\ mt = [pc |-> "none"]
    /\ chk = [pc |-> "none"]
    /\ ser = [pc |-> "none"]
    /\ repo = [pc |-> "none"]

\* _get_results is called for an object under some settings; ans[k] is the
\* number of results the remote returns for the query built from field-set k
PlanInit ==
    /\ SearchIdle
    /\ plan \in [pc : {"q1"},
            settings : [search_fields_1 : {{"name"}, {"name", "artist"}},
            search_fields_2 : {{}, {"name"}, {"name", "album"}},
            search_fields_3 : {{}, {"name"}}],
            ans : [1..3 -> 0..MaxResp],
                 results : {0}, queries : {<<>>}, returned : {0}]
    /\ mt = [pc |-> "none"]
    /\ chk = [pc |-> "none"]
    /\ ser = [pc |-> "none"]
    /\ repo = [pc |-> "none"]
    /\ LaterIdle("")

\* _get_results, line 122: the query of the first field-set is always made
PlanQuery1 ==
    /\ plan.pc = "q1"
    /\ plan' = [plan EXCEPT !.results = plan.ans[1], !.queries = Append(@, 1), !.pc = "q2"]
    /\ UNCHANGED <<searchVars, mt, chk, ser, repo, later>>

\* a planner that queries the second field-set whatever the first returned
PlanQuery2Always ==
    /\ plan.pc = "q2"
    /\ IF plan.settings.search_fields_2 # {}
       THEN plan' = [plan EXCEPT !.results = plan.ans[2], !.queries = Append(@, 2), !.pc = "q3"]
       ELSE plan' = [plan EXCEPT !.pc = "q3"]
    /\ UNCHANGED <<searchVars, mt, chk, ser, repo, later>>

\* _get_results, lines 123-124
PlanQuery2 ==
    /\ plan.pc = "q2"
    /\ IF plan.results = 0 /\ plan.settings.search_fields_2 # {}
       THEN plan' = [plan EXCEPT !.results = plan.ans[2], !.queries = Append(@, 2), !.pc = "q3"]
       ELSE plan' = [plan EXCEPT !.pc = "q3"]
    /\ UNCHANGED <<searchVars, mt, chk, ser, repo, later>>

\* _get_results, lines 125-126
PlanQuery3 ==
    /\ plan.pc = "q3"
    /\ IF plan.results = 0 /\ plan.settings.search_fields_3 # {}
       THEN plan' = [plan EXCEPT !.results = plan.ans[3], !.queries = Append(@, 3), !.pc = "ret"]
       ELSE plan' = [plan EXCEPT !.pc = "ret"]
    /\ UNCHANGED <<searchVars, mt, chk, ser, repo, later>>

\* _get_results, lines 128-131: the results when there are any, else None (0)
PlanReturn ==
    /\ plan.pc = "ret"
    /\ plan' = [plan EXCEPT !.returned = IF plan.results # 0 THEN plan.results ELSE 0,
                            !.pc = "done"]
    /\ UNCHANGED <<searchVars, mt, chk, ser, repo, later>>

PlanNext == PlanQuery1 \/ PlanQuery2 \/ PlanQuery3 \/ PlanReturn

SpecPlanner == PlanInit /\ [][PlanNext]_vars

\* ------------------------------------------------------- match(), stepwise
MaxCand == 3                    \* responses of one query handed to match()

search_settings(kind) == IF kind = "TRACK" THEN TRACK ELSE ALBUM

\* sorted(ids, key=...): Python's sort is stable
RECURSIVE Sorted(_, _)
Sorted(ids, key) ==
    IF ids = <<>> THEN <<>>
    ELSE LET pre == Sorted(SubSeq(ids, 1, Len(ids) - 1), key)
             x == ids[Len(ids)]
         IN  SelectSeq(pre, LAMBDA y : key[y] <= key[x]) \o <<x>>
               \o SelectSeq(pre, LAMBDA y : key[y] > key[x])

\* the responses in the order the remote returned them, by index
ApiOrder(responses) == [k \in DOMAIN responses |-> k]

DistKey(responses) == [k \in DOMAIN responses |-> responses[k].dist]

\* the searcher is about to call match() for an object of some kind with the
\* responses of its query
MatchInit ==
    /\ SearchIdle
    /\ plan = [pc |-> "none"]
    /\ chk = [pc |-> "none"]
    /\ ser = [pc |-> "none"]
    /\ repo = [pc |-> "none"]
    /\ LaterIdle("")
    /\ mt \in [pc : {"call"}, kind : {"TRACK", "ALBUM"},
            responses : (UNION { [1..n -> [score : {5, 50, 75, 85}, dist : {0, 1}, karaoke : BOOLEAN]] : n \in 0..MaxCand }),
                itemKaraoke : BOOLEAN, results : {<<>>}, min_score : {0}, max_score : {0},
                allow_karaoke : {FALSE}, pos : {0}, best : {0}, evaluated : {<<>>},
                returned : {0}]

\* a searcher that passes the thresholds of the TRACK configuration for every kind
MatchCallTrackConfig ==
    /\ mt.pc = "call"
    /\ mt' = [mt EXCEPT !.results = IF mt.kind = "ALBUM"
                                    THEN Sorted(ApiOrder(mt.responses), DistKey(mt.responses))
                                    ELSE ApiOrder(mt.responses),
                        !.min_score = TRACK.min_score,
                        !.max_score = TRACK.max_score,
                        !.allow_karaoke = TRACK.allow_karaoke,
                        !.pc = "filter"]
    /\ UNCHANGED <<searchVars, plan, chk, ser, repo, later>>

\* a searcher that sorts the responses by item count for every kind
MatchCallSortAll ==
    /\ mt.pc = "call"
    /\ mt' = [mt EXCEPT !.results = Sorted(ApiOrder(mt.responses), DistKey(mt.responses)),
                        !.min_score = search_settings(mt.kind).min_score,
                        !.max_score = search_settings(mt.kind).max_score,
                        !.allow_karaoke = search_settings(mt.kind).allow_karaoke,
                        !.pc = "filter"]
    /\ UNCHANGED <<searchVars, plan, chk, ser, repo, later>>

\* the call of match(): _get_item_match, lines 243-258, hands over the
\* responses as returned; _search_collection_unit, lines 279-298, sorts them by
\* the distance of their item count to the collection's; both pass the
\* thresholds and the karaoke allowance of the configuration of the kind
MatchCall ==
    /\ mt.pc = "call"
    /\ mt' = [mt EXCEPT !.results = IF mt.kind = "ALBUM"
                                    THEN Sorted(ApiOrder(mt.responses), DistKey(mt.responses))
                                    ELSE ApiOrder(mt.responses),
                        !.min_score = search_settings(mt.kind).min_score,
                        !.max_score = search_settings(mt.kind).max_score,
                        !.allow_karaoke = search_settings(mt.kind).allow_karaoke,
                        !.pc = "filter"]
    /\ UNCHANGED <<searchVars, plan, chk, ser, repo, later>>

\* match(), step 1: karaoke candidates are dropped unless allowed or the item
\* is itself karaoke
MatchFilter ==
    /\ mt.pc = "filter"
    /\ mt' = [mt EXCEPT !.results = SelectSeq(mt.results,
                              LAMBDA k : ~mt.responses[k].karaoke \/ mt.allow_karaoke
                                           \/ mt.itemKaraoke),
                        !.pos = 1, !.pc = "scan"]
    /\ UNCHANGED <<searchVars, plan, chk, ser, repo, later>>

\* match(), steps 2-4: the next candidate is scored; it becomes the best when
\* its score is higher than the best so far; at max_score or above the scan stops
MatchScan ==
    /\ mt.pc = "scan"
    /\ mt.pos <= Len(mt.results)
    /\ LET k == mt.results[mt.pos]
           better == mt.best = 0 \/ mt.responses[k].score > mt.responses[mt.best].score
       IN  mt' = [mt EXCEPT !.evaluated = Append(@, k),
                            !.best = IF better THEN k ELSE @,
                            !.pos = @ + 1,
                            !.pc = IF mt.responses[k].score >= mt.max_score THEN "ret" ELSE "scan"]
    /\ UNCHANGED <<searchVars, plan, chk, ser, repo, later>>

\* match(), step 5: after the scan the best candidate is returned when its
\* score is at least min_score, else None (0)
MatchReturn ==
    /\ mt.pc = "ret" \/ (mt.pc = "scan" /\ mt.pos > Len(mt.results))
    /\ mt' = [mt EXCEPT !.returned = IF mt.best # 0 /\ mt.responses[mt.best].score >= mt.min_score
                                     THEN mt.best ELSE 0,
                        !.pc = "done"]
    /\ UNCHANGED <<searchVars, plan, chk, ser, repo, later>>

MatchNext == MatchCall \/ MatchFilter \/ MatchScan \/ MatchReturn

SpecMatcher == MatchInit /\ [][MatchNext]_vars

\* ------------------------------------------- the interactive check, stepwise
MaxGroups == 2                  \* tentatively matched groups (albums) of a check
GroupSize == 2                  \* items of a group
MaxSearches == 1                \* explicit search calls after the first check

Groups == 1..MaxGroups
Slots == 1..GroupSize

\* check(collections, interval) is called after a search: every group is
\* pending, its items carry the tentative URIs of the search
CheckInit ==
    /\ SearchIdle
    /\ plan = [pc |-> "none"]
    /\ mt = [pc |-> "none"]
    /\ ser = [pc |-> "none"]
    /\ repo = [pc |-> "none"]
    /\ LaterIdle("")
    /\ chk \in [pc : {"check"}, interval : 1..MaxGroups,
                 state : {[g \in Groups |-> "Pending"]},
                 uri : [Groups -> [Slots -> URIs]],
                 searches : {0}]

\* at the interval the check pauses and presents the next batch of pending
\* groups to the user; a batch is decided before the next is presented
CheckPresent ==
    /\ chk.pc = "check"
    /\ \A g \in Groups : chk.state[g] # "Presented"
    /\ \E g \in Groups : chk.state[g] = "Pending"
    /\ chk' = [chk EXCEPT !.state = [g \in Groups |->
                    IF chk.state[g] = "Pending"
                            /\ Cardinality({h \in Groups : h < g /\ chk.state[h] = "Pending"}) < chk.interval
                    THEN "Presented" ELSE chk.state[g]]]
    /\ UNCHANGED <<searchVars, plan, mt, ser, repo, later>>

\* the user accepts a presented group: commit, no change
CheckAccept(g) ==
    /\ chk.pc = "check"
    /\ chk.state[g] = "Presented"
    /\ chk' = [chk EXCEPT !.state[g] = "Accepted"]
    /\ UNCHANGED <<searchVars, plan, mt, ser, repo, later>>

\* the user rejects a presented group: every item of the group is set to
\* unavailable (the track does not exist remotely) or reset to unknown (wrong
\* match)
CheckReject(g, mode) ==
    /\ chk.pc = "check"
    /\ chk.state[g] = "Presented"
    /\ chk' = [chk EXCEPT !.state[g] = "Rejected",
                          !.uri[g] = [k \in Slots |->
                                        IF mode = "unavailable" THEN Unavailable ELSE NoURI]]
    /\ UNCHANGED <<searchVars, plan, mt, ser, repo, later>>

\* check returns when every group is decided
CheckReturn ==
    /\ chk.pc = "check"
    /\ \A g \in Groups : chk.state[g] \in {"Accepted", "Rejected"}
    /\ chk' = [chk EXCEPT !.pc = "returned"]
    /\ UNCHANGED <<searchVars, plan, mt, ser, repo, later>>

\* a new search that leaves out no track: every item may be matched anew
CheckSearchNoFilter ==
    /\ chk.pc = "returned"
    /\ chk.searches < MaxSearches
    /\ \E new \in [Groups -> [Slots -> URIs \cup {NoURI}]] :
          chk' = [chk EXCEPT !.uri = new,
                             !.state = [g \in Groups |->
                                 IF \E k \in Slots : new[g][k] # chk.uri[g][k]
                                 THEN "Pending" ELSE chk.state[g]],
                             !.searches = @ + 1,
                             !.pc = "check"]
    /\ UNCHANGED <<searchVars, plan, mt, ser, repo, later>>

\* Syncify.search, main.py lines 341-357: the tracks whose has_uri is not None
\* are removed from the albums, the albums left with a track are searched (an
\* unknown track may be given a real URI) and then checked: a group with a
\* newly matched track is pending again
CheckSearch ==
    /\ chk.pc = "returned"
    /\ chk.searches < MaxSearches
    /\ \E g \in Groups : \E k \in Slots : has_uri(chk.uri[g][k]) = "None"
    /\ \E new \in [Groups -> [Slots -> URIs \cup {NoURI}]] :
          /\ \A g \in Groups : \A k \in Slots :
                has_uri(chk.uri[g][k]) # "None" => new[g][k] = chk.uri[g][k]
          /\ chk' = [chk EXCEPT !.uri = new,
                                !.state = [g \in Groups |->
                                    IF \E k \in Slots : new[g][k] # chk.uri[g][k]
                                    THEN "Pending" ELSE chk.state[g]],
                                !.searches = @ + 1,
                                !.pc = "check"]
    /\ UNCHANGED <<searchVars, plan, mt, ser, repo, later>>

CheckNext ==
    \/ CheckPresent
    \/ CheckReturn
    \/ CheckSearch
    \/ \E g \in Groups :
          \/ CheckAccept(g)
          \/ \E mode \in {"unavailable", "unknown"} : CheckReject(g, mode)

SpecChecker == CheckInit /\ [][CheckNext]_vars

\* ------------------------------------- SQLiteTable: serialize and deserialize
\* Python values: None, numbers, lists, dicts with string keys, and strings. A
\* string is either the JSON text of a value, written compact (indent 0) or
\* with an indent, or a string that is not valid JSON.
PyNone == [type |-> "NoneType"]

NoJson == [type |-> "invalid"]

MemberKeys == {"a", "b"}

Dicts == {[type |-> "dict", items |-> f] :
            f \in UNION {[K -> 0..1] : K \in SUBSET MemberKeys}}

Atoms == Dicts \cup {[type |-> "int", v |-> 0], [type |-> "int", v |-> 123]}
        \cup {[type |-> "list", elems |-> <<1>>]} \cup {PyNone}

PlainStrs == {[type |-> "str", json |-> NoJson, indent |-> 0, chars |-> c] :
                c \in {"I am not a valid JSON", "hello"}}

\* json.dumps(v, indent=indent): the text of v; the indent shows in the text
\* of a value that has members only (its JSON text then spans several lines)
Dumps(v, indent) ==
    [type |-> "str", json |-> v, chars |-> "",
     indent |-> IF \/ v.type = "dict" /\ DOMAIN v.items # {}
                   \/ v.type = "list" /\ v.elems # <<>>
                THEN indent ELSE 0]

JSONDecodeError == [type |-> "raise", exc |-> "JSONDecodeError"]
TypeError == [type |-> "raise", exc |-> "TypeError"]

\* json.loads(x): the value a JSON text denotes; JSONDecodeError for a string
\* that is not valid JSON, TypeError for a value that is not a string
Loads(x) ==
    IF x.type # "str" THEN TypeError
    ELSE IF x.json = NoJson THEN JSONDecodeError
    ELSE x.json

\* serialize without the check that a string is valid JSON
serializeNoCheck(value) ==
    IF value.type = "str" THEN value ELSE Dumps(value, 2)

\* SQLiteTable.serialize, lines 171-179
serialize(value) ==
    IF value.type = "str"
    THEN IF Loads(value) = JSONDecodeError THEN PyNone ELSE value
    ELSE Dumps(value, 2)

\* SQLiteTable.deserialize, lines 181-188
deserialize(value) ==
    IF value.type = "dict" THEN value
    ELSE IF Loads(value) \in {JSONDecodeError, TypeError} THEN PyNone
    ELSE Loads(value)

\* a value is about to be serialized and deserialized
SerialInit ==
    /\ SearchIdle
    /\ plan = [pc |-> "none"]
    /\ mt = [pc |-> "none"]
    /\ chk = [pc |-> "none"]
    /\ repo = [pc |-> "none"]
    /\ LaterIdle("")
    /\ ser \in [pc : {"start"},
            value : (Atoms \cup PlainStrs \cup ({Dumps(v, i) : v \in Atoms \cup PlainStrs, i \in {0, 2}})),
            s1 : {PyNone}, s2 : {PyNone},
                 d0 : {PyNone}, d1 : {PyNone}]

\* serialize(value)
SerSerialize ==
    /\ ser.pc = "start"
    /\ ser' = [ser EXCEPT !.s1 = serialize(ser.value), !.pc = "serialized"]
    /\ UNCHANGED <<searchVars, plan, mt, chk, repo, later>>

\* serialize applied to the output of serialize
SerAgain ==
    /\ ser.pc = "serialized"
    /\ ser' = [ser EXCEPT !.s2 = serialize(ser.s1), !.pc = "again"]
    /\ UNCHANGED <<searchVars, plan, mt, chk, repo, later>>

\* deserialize(value) and deserialize(serialize(value))
SerDeserialize ==
    /\ ser.pc = "again"
    /\ ser' = [ser EXCEPT !.d0 = deserialize(ser.value), !.d1 = deserialize(ser.s1),
                          !.pc = "done"]
    /\ UNCHANGED <<searchVars, plan, mt, chk, repo, later>>

SerialNext == SerSerialize \/ SerAgain \/ SerDeserialize

SpecSerial == SerialInit /\ [][SerialNext]_vars

\* ------------------------------------------- SQLiteTable and CachedSession
\* One table of the cache. Time is a counter; a row holds the serialized data
\* (PyNone for NULL) and its expiry time. wrote[k] is the value last passed to
\* __setitem__ for k, kept for the statement of properties only.
Keys == {"k1", "k2"}

MaxTime == 4

MaxReq == 3

ExpireAfter == 2

NoRow == [type |-> "norow"]

NoValue == [type |-> "novalue"]

MusifyKeyError == [type |-> "raise", exc |-> "MusifyKeyError"]

\* the values of the test items and the bodies of responses: non-empty dicts
Bodies == {d \in Dicts : DOMAIN d.items = {"a"}}

\* ResponseRepository.expire: the time at which an entry written at t expires
expire(t) == t + ExpireAfter

\* __getitem__ without the condition on the expiry time
GetItemNoExpiry(rows, t, k) ==
    IF rows[k] # NoRow /\ rows[k].data # PyNone
    THEN deserialize(rows[k].data)
    ELSE MusifyKeyError

\* SQLiteTable.__getitem__, lines 121-135
GetItem(rows, t, k) ==
    IF rows[k] # NoRow /\ rows[k].data # PyNone /\ rows[k].expires_at > t
    THEN deserialize(rows[k].data)
    ELSE MusifyKeyError

\* SQLiteTable.__iter__, lines 109-116: the keys yielded
Iter(rows, t) == {k \in Keys : rows[k] # NoRow /\ rows[k].expires_at > t}

\* SQLiteTable.count, lines 93-101
count(rows, t, expired) ==
    IF expired
    THEN Cardinality({k \in Keys : rows[k] # NoRow})
    ELSE Cardinality({k \in Keys : rows[k] # NoRow /\ rows[k].expires_at > t})

\* SQLiteTable.__len__, lines 118-119
len(rows, t) == count(rows, t, FALSE)

\* __setitem__ that stores the time of writing as the expiry time
SetItemExpired(rows, t, k, value) ==
    [rows EXCEPT ![k] = [type |-> "row", data |-> serialize(value), expires_at |-> t]]

\* SQLiteTable.__setitem__, lines 137-159: INSERT OR REPLACE
SetItem(rows, t, k, value) ==
    [rows EXCEPT ![k] = [type |-> "row", data |-> serialize(value),
                         expires_at |-> expire(t)]]

\* key in repository
InRepo(rows, t, k) == GetItem(rows, t, k) # MusifyKeyError

\* the table of the test fixture: each key has no row, a valid item or an
\* expired item
RepoInit ==
    /\ SearchIdle
    /\ plan = [pc |-> "none"]
    /\ mt = [pc |-> "none"]
    /\ chk = [pc |-> "none"]
    /\ ser = [pc |-> "none"]
    /\ LaterIdle("")
    /\ \E item0 \in [Keys -> {NoValue} \cup Bodies],
          valid \in [Keys -> BOOLEAN] :
          repo = [pc |-> "open",
                  now |-> 1,
                  rows |-> [k \in Keys |->
                              IF item0[k] = NoValue THEN NoRow
                              ELSE [type |-> "row", data |-> serialize(item0[k]),
                                    expires_at |-> IF valid[k] THEN expire(1)
                                                   ELSE 1 - 1]],
                  wrote |-> [k \in Keys |-> NoValue],
                  http |-> 0,
                  nreq |-> 0,
                  last |-> [key |-> "none", persist |-> FALSE, body |-> PyNone, sent |-> FALSE]]

\* time passes
RepoTick ==
    /\ repo.pc = "open"
    /\ repo.now < MaxTime
    /\ repo' = [repo EXCEPT !.now = repo.now + 1]
    /\ UNCHANGED <<searchVars, plan, mt, chk, ser, later>>

\* repository[k] = value
RepoSetItem(k, value) ==
    /\ repo.pc = "open"
    /\ repo' = [repo EXCEPT !.rows = SetItem(repo.rows, repo.now, k, value),
                            !.wrote[k] = value]
    /\ UNCHANGED <<searchVars, plan, mt, chk, ser, later>>

\* del repository[k], lines 161-169; raises and changes nothing without a row
RepoDelItem(k) ==
    /\ repo.pc = "open"
    /\ repo.rows[k] # NoRow
    /\ repo' = [repo EXCEPT !.rows[k] = NoRow, !.wrote[k] = NoValue]
    /\ UNCHANGED <<searchVars, plan, mt, chk, ser, later>>

\* CachedSession.request(method, url, persist): answered from the repository
\* when the key is in it, else sent, and stored when persist
SessionRequest(k, persist) ==
    /\ repo.pc = "open"
    /\ repo.nreq < MaxReq
    /\ IF InRepo(repo.rows, repo.now, k)
       THEN repo' = [repo EXCEPT
                       !.nreq = repo.nreq + 1,
                       !.last = [key |-> k, persist |-> persist, sent |-> FALSE,
                                 body |-> GetItem(repo.rows, repo.now, k)]]
       ELSE \E body \in Bodies :
               repo' = [repo EXCEPT
                          !.nreq = repo.nreq + 1,
                          !.http = repo.http + 1,
                          !.rows = IF persist THEN SetItem(repo.rows, repo.now, k, body)
                                   ELSE repo.rows,
                          !.wrote[k] = IF persist THEN body ELSE repo.wrote[k],
                          !.last = [key |-> k, persist |-> persist, sent |-> TRUE,
                                    body |-> body]]
    /\ UNCHANGED <<searchVars, plan, mt, chk, ser, later>>

RepoNext ==
    \/ RepoTick
    \/ \E k \in Keys :
          \/ \E value \in (Bodies
                  \cup {Dumps(d, 0) : d \in {b \in Bodies : b.items["a"] = 0}}
                  \cup {s \in PlainStrs : s.chars = "hello"})
                  : RepoSetItem(k, value)
          \/ RepoDelItem(k)
          \/ \E persist \in BOOLEAN : SessionRequest(k, persist)

SpecCache == RepoInit /\ [][RepoNext]_vars

\* ------------------------------------------------------ ItemCollection.pop
\* The two versions of ItemCollection in the repository: "abstract" is
\* src/syncify/abstract/collection.py, "src" is src/src/syncify/abstract/collection.py.
MaxPop == 3

\* list.pop(i) for a valid index i (counted from 0): the item and the list left
ListPop(items, i) ==
    [raised |-> "none",
     ret |-> items[i + 1],
     items |-> [k \in 1..(Len(items) - 1) |-> IF k <= i THEN items[k] ELSE items[k + 1]]]

\* ItemCollection.pop(__item) of the given version; PyNone is the default;
\* list.pop(None): 'NoneType' object cannot be interpreted as an integer
pop(version, items, arg) ==
    IF version = "abstract"
    THEN IF arg = PyNone
         THEN [raised |-> "TypeError", ret |-> 0, items |-> items]
         ELSE ListPop(items, arg.v)
    ELSE IF arg # PyNone /\ arg.v # 0
         THEN ListPop(items, arg.v)
         ELSE ListPop(items, Len(items) - 1)

\* a collection and the argument of the call: nothing, or a valid index
PopInit ==
    /\ EarlierIdle
    /\ LaterIdle("ic")
    /\ \E version \in {"abstract", "src"}, items \in (UNION {[1..n -> (1..3)] : n \in 1..MaxPop}) :
          \E arg \in {PyNone} \cup {[type |-> "int", v |-> i] : i \in 0..(Len(items) - 1)} :
             ic = [pc |-> "start", version |-> version, before |-> items, items |-> items,
                   arg |-> arg, ret |-> 0, raised |-> "none"]

\* collection.pop(arg)
IcPop ==
    /\ ic.pc = "start"
    /\ LET r == pop(ic.version, ic.items, ic.arg)
       IN  ic' = [ic EXCEPT !.pc = "done", !.items = r.items, !.ret = r.ret,
                            !.raised = r.raised]
    /\ UNCHANGED <<earlier, lib, xpf, wr, leg, pg, ap, rs>>

SpecPop == PopInit /\ [][IcPop]_vars

\* ---------------------------------------------------------- Syncify.restore
MaxPrompts == 4

BackupNames == {"b1", "b2"}

\* str.lower() on an answer
lower(answer) == IF answer = "Y" THEN "y" ELSE answer

\* restore() is called with some set of backup folders on disk
RestoreInit ==
    /\ EarlierIdle
    /\ LaterIdle("rs")
    /\ \E found \in SUBSET BackupNames :
          rs = [pc |-> "start", available_backup_names |-> found, skipping |-> FALSE,
                prompts |-> 0, restore_from |-> "none", local |-> FALSE, spotify |-> FALSE]

\* lines 233-240: list the backups, log "No backups found, skipping." when
\* there is none, log the available backups and go on to the prompt
RestoreList ==
    /\ rs.pc = "start"
    /\ rs' = [rs EXCEPT !.skipping = (Cardinality(rs.available_backup_names) = 0),
                        !.pc = "select"]
    /\ UNCHANGED <<earlier, lib, xpf, wr, leg, pg, ap, ic>>

\* lines 242-246: one turn of the loop that asks for the backup to use
RestoreSelect(typed) ==
    /\ rs.pc = "select"
    /\ rs.prompts < MaxPrompts
    /\ rs' = [rs EXCEPT !.prompts = rs.prompts + 1,
                        !.restore_from = IF typed \in rs.available_backup_names
                                         THEN typed ELSE rs.restore_from,
                        !.pc = IF typed \in rs.available_backup_names
                               THEN "local" ELSE "select"]
    /\ UNCHANGED <<earlier, lib, xpf, wr, leg, pg, ap, ic>>

\* lines 249-250
RestoreLocal(answer) ==
    /\ rs.pc = "local"
    /\ rs' = [rs EXCEPT !.local = (lower(answer) = "y"), !.pc = "spotify"]
    /\ UNCHANGED <<earlier, lib, xpf, wr, leg, pg, ap, ic>>

\* lines 251-252
RestoreSpotify(answer) ==
    /\ rs.pc = "spotify"
    /\ rs' = [rs EXCEPT !.spotify = (lower(answer) = "y"), !.pc = "returned"]
    /\ UNCHANGED <<earlier, lib, xpf, wr, leg, pg, ap, ic>>

RestoreNext ==
    \/ RestoreList
    \/ \E typed \in (BackupNames \cup {"x"}) : RestoreSelect(typed)
    \/ \E answer \in {"y", "Y", "n"} : RestoreLocal(answer) \/ RestoreSpotify(answer)

SpecRestore == RestoreInit /\ [][RestoreNext]_vars

\* ------------------------------ SpotifyAPICollections._get_collection_items
\* The collection on the remote has the items 1..total, in that order. A URL
\* of a page is its offset; the limit of the pages is the response's limit.
MaxTotal == 4

MaxLimit == 2

MaxCalls == 2

NoNext == 0 - 1

\* the items at positions from+1 .. to of the collection
ItemsFrom(from, to) == [i \in 1..(IF to > from THEN to - from ELSE 0) |-> from + i]

Min(a, b) == IF a <= b THEN a ELSE b

\* GET of the page at an offset by an API that honours offset and limit
ApiPage(total, limit, offset) ==
    [items |-> ItemsFrom(offset, Min(offset + limit, total)),
     next |-> IF offset + limit < total THEN offset + limit ELSE NoNext]

\* a response that holds the first k items; its `next` is whatever the API
\* put there when more items remain, and possibly nothing when none does
PagesInit ==
    /\ EarlierIdle
    /\ LaterIdle("pg")
    /\ \E total \in 0..MaxTotal, limit \in 1..MaxLimit :
          \E k \in 0..total :
             \E next \in (0..total) \cup (IF k = total THEN {NoNext} ELSE {}) :
                pg = [pc |-> "start", total |-> total, limit |-> limit, k |-> k,
                      items |-> ItemsFrom(0, k), next |-> next, response_next |-> NoNext,
                      results |-> <<>>, requests |-> <<>>, calls |-> 0]

\* lines 76-95 without the workaround of lines 88-91: `next` is used as given
PagesCallNoWorkaround ==
    /\ pg.pc \in {"start", "returned"}
    /\ pg.calls < MaxCalls
    /\ pg' = [pg EXCEPT !.response_next = pg.next,
                        !.results = <<>>,
                        !.requests = <<>>,
                        !.pc = "loop"]
    /\ UNCHANGED <<earlier, lib, xpf, wr, leg, ap, rs, ic>>

\* lines 76-95: the call on the response; when it has a `next`, that is
\* replaced by the URL of the page at offset len(items)
PagesCall ==
    /\ pg.pc \in {"start", "returned"}
    /\ pg.calls < MaxCalls
    /\ LET next == IF pg.next # NoNext THEN Len(pg.items) ELSE NoNext
       IN  pg' = [pg EXCEPT !.next = next,
                            !.response_next = next,
                            !.results = <<>>,
                            !.requests = <<>>,
                            !.pc = "loop"]
    /\ UNCHANGED <<earlier, lib, xpf, wr, leg, ap, rs, ic>>

\* lines 96-108: one turn of the loop, the request of the next page
PagesGet ==
    /\ pg.pc = "loop"
    /\ pg.response_next # NoNext
    /\ LET response == ApiPage(pg.total, pg.limit, pg.response_next)
       IN  pg' = [pg EXCEPT !.requests = Append(pg.requests, pg.response_next),
                            !.results = pg.results \o response.items,
                            !.response_next = response.next]
    /\ UNCHANGED <<earlier, lib, xpf, wr, leg, ap, rs, ic>>

\* lines 110-118: the loop ends, the response is extended, results returned
PagesReturn ==
    /\ pg.pc = "loop"
    /\ pg.response_next = NoNext
    /\ pg' = [pg EXCEPT !.items = pg.items \o pg.results,
                        !.calls = pg.calls + 1,
                        !.pc = "returned"]
    /\ UNCHANGED <<earlier, lib, xpf, wr, leg, ap, rs, ic>>

PagesNext == PagesCall \/ PagesGet \/ PagesReturn

SpecPages == PagesInit /\ [][PagesNext]_vars

\* ------------------------------------ RemoteDataWrangler.validate_item_type
\* A value is a URL/URI or response of some item type, or a plain ID, for
\* which _get_item_type returns None.
MaxValues == 3

ItemTypes == {"TRACK", "ALBUM"}

PlainID == "ID"

\* None, as returned in place of an item type
NoType == "None"

RemoteItemTypeError == "RemoteItemTypeError"

\* _get_item_type(value): the item type of a value, None for a plain ID
GetItemTypeOf(value) == IF value = PlainID THEN NoType ELSE value

\* get_item_type(values), lines 40-68; values is one value (single) or a
\* sequence of values
get_item_type(values) ==
    IF values.single THEN GetItemTypeOf(values.elems[1])
    ELSE IF Len(values.elems) = 0 THEN RemoteItemTypeError
    ELSE LET kinds == {GetItemTypeOf(values.elems[i]) : i \in DOMAIN values.elems} \ {NoType}
         IN  IF Cardinality(kinds) = 0 THEN RemoteItemTypeError
             ELSE IF Cardinality(kinds) # 1 THEN RemoteItemTypeError
             ELSE CHOOSE k \in kinds : TRUE

\* validate_item_type(values, kind), lines 85-104: the exception raised, if any
validate_item_type(values, kind) ==
    LET item_type == get_item_type(values)
    IN  IF item_type = RemoteItemTypeError THEN RemoteItemTypeError
        ELSE IF item_type # NoType /\ ~(item_type = kind) THEN RemoteItemTypeError
        ELSE "none"

WrangleInit ==
    /\ EarlierIdle
    /\ LaterIdle("wr")
    /\ \E kind \in ItemTypes, single \in BOOLEAN :
          \E elems \in UNION {[1..n -> ItemTypes \cup {PlainID}] :
                                n \in (IF single THEN {1} ELSE 0..MaxValues)} :
             wr = [pc |-> "start", kind |-> kind,
                   values |-> [single |-> single, elems |-> elems], raised |-> "none"]

\* validate_item_type(values, kind)
WrangleValidate ==
    /\ wr.pc = "start"
    /\ wr' = [wr EXCEPT !.raised = validate_item_type(wr.values, wr.kind), !.pc = "done"]
    /\ UNCHANGED <<earlier, lib, xpf, leg, pg, ap, rs, ic>>

SpecWrangle == WrangleInit /\ [][WrangleValidate]_vars

\* ---------------------------------- SpotifyAPICollections.add_to_playlist
MaxAdd == 3

MaxCurrent == 1

TrackURIs == {"a", "b"}

Max(a, b) == IF a >= b THEN a ELSE b

\* limit_value(value, floor, ceil), helpers.py lines 67-69
limit_value(value, floor, ceil) == Max(Min(value, ceil), floor)

\* itertools.batched(s, n): the batches of s of n elements each, the last shorter
batched(s, n) ==
    [i \in 1..((Len(s) + n - 1) \div n) |-> SubSeq(s, (i - 1) * n + 1, Min(i * n, Len(s)))]

\* lines 297-301 with the filter on the current tracks left out
UrisToPostAll(uri_list, uris_current, skip_dupes) == uri_list

\* lines 297-301: with skip_dupes the URIs of the tracks currently in the
\* playlist are taken out of the list
UrisToPost(uri_list, uris_current, skip_dupes) ==
    IF skip_dupes
    THEN SelectSeq(uri_list, LAMBDA x : x \notin Range(uris_current))
    ELSE uri_list

\* the item types of the items as validate_item_type sees them
AddValues(items) ==
    [single |-> FALSE,
     elems |-> [i \in DOMAIN items |-> IF items[i].form = "ID" THEN PlainID ELSE "TRACK"]]

\* a playlist with some tracks and the arguments of the call
AddInit ==
    /\ EarlierIdle
    /\ LaterIdle("ap")
    /\ \E tracks \in UNION {[1..n -> TrackURIs] : n \in 0..MaxCurrent},
          items \in UNION {[1..n -> [uri : TrackURIs, form : {"URI", "ID"}]] : n \in 0..MaxAdd},
          limit \in {0, 1, 2, 51}, skip_dupes \in BOOLEAN :
          ap = [pc |-> "start", tracks0 |-> tracks, tracks |-> tracks, items |-> items,
                limit |-> limit, skip_dupes |-> skip_dupes,
                posts |-> <<>>, ret |-> 0, raised |-> "none"]

\* add_to_playlist(playlist, items, limit, skip_dupes), lines 274-308; each
\* POST appends its URIs to the playlist
AddToPlaylist ==
    /\ ap.pc = "start"
    /\ LET limit == limit_value(ap.limit, 1, 50)
           uri_list0 == [i \in DOMAIN ap.items |-> ap.items[i].uri]
           uri_list == UrisToPost(uri_list0, ap.tracks, ap.skip_dupes)
       IN  IF Len(ap.items) = 0
           THEN ap' = [ap EXCEPT !.pc = "done", !.ret = 0]
           ELSE IF validate_item_type(AddValues(ap.items), "TRACK") = RemoteItemTypeError
           THEN ap' = [ap EXCEPT !.pc = "done", !.raised = RemoteItemTypeError]
           ELSE ap' = [ap EXCEPT !.pc = "done",
                                 !.posts = batched(uri_list, limit),
                                 !.tracks = ap.tracks \o uri_list,
                                 !.ret = Len(uri_list)]
    /\ UNCHANGED <<earlier, lib, xpf, wr, leg, pg, rs, ic>>

SpecAdd == AddInit /\ [][AddToPlaylist]_vars

\* ------------------------------------------- legacy ItemSearcher.search
\* One collection of the batch. An entry of a result is an item of the input
\* collection or a remote object that the matcher returned for the item (or
\* for the position, for the tracks of a matched album).
MaxLegacy == 2

\* the remote track returned for the item i of the input
RemoteTrack(i) == [of |-> "remote", id |-> i, has_uri |-> "True"]

\* _search_items, lines 170-183: per item the match when there is one, else
\* the item
LegacySearchItems(items, found) ==
    [k \in DOMAIN items |->
        IF found[items[k].id] THEN RemoteTrack(items[k].id) ELSE items[k]]

\* _search_album, lines 185-193: the matched album when there is one, else
\* the collection
LegacySearchAlbum(items, albumFound) ==
    IF albumFound THEN [k \in DOMAIN items |-> RemoteTrack(k)] ELSE items

\* lines 161-165: matched when has_uri is truthy, unmatched when it is None,
\* skipped when `not has_uri`
LegacyResult(matches) ==
    [matched |-> SelectSeq(matches, LAMBDA t : t.has_uri = "True"),
     unmatched |-> SelectSeq(matches, LAMBDA t : t.has_uri = "None"),
     skipped |-> SelectSeq(matches, LAMBDA t : t.has_uri # "True")]

\* a collection, whether it is a compilation, and what the remote finds
LegacyInit ==
    /\ EarlierIdle
    /\ LaterIdle("leg")
    /\ \E n \in 1..MaxLegacy :
          \E known \in [1..n -> {"None", "True", "False"}], found \in [1..n -> BOOLEAN],
             compilation \in BOOLEAN, albumFound \in BOOLEAN :
             leg = [pc |-> "start",
                    items |-> [i \in 1..n |-> [of |-> "item", id |-> i, has_uri |-> known[i]]],
                    compilation |-> compilation, found |-> found,
                    albumFound |-> albumFound,
                    returned |-> FALSE,
                    result |-> [matched |-> <<>>, unmatched |-> <<>>, skipped |-> <<>>]]

\* search(), lines 130-168, for the one collection
LegacySearch ==
    /\ leg.pc = "start"
    /\ IF \A k \in DOMAIN leg.items : leg.items[k].has_uri # "None"
       THEN leg' = [leg EXCEPT !.pc = "done"]
       ELSE LET album == LegacySearchAlbum(leg.items, leg.albumFound)
                missing == SelectSeq(album, LAMBDA t : t.has_uri = "None")
                matches == IF leg.compilation
                          THEN LegacySearchItems(leg.items, leg.found)
                          ELSE IF missing # <<>>
                               THEN LegacySearchItems(missing, leg.found)
                               ELSE album
            IN  leg' = [leg EXCEPT !.pc = "done", !.returned = TRUE,
                                   !.result = LegacyResult(matches)]
    /\ UNCHANGED <<earlier, lib, xpf, wr, pg, ap, rs, ic>>

SpecLegacy == LegacyInit /\ [][LegacySearch]_vars

\* ------------------------------------------ Library.get_filtered_playlists
\* A library of two playlists over two item objects. The tag that is filtered
\* on is one attribute of the item; its value is a string or not.
MaxPlaylist == 2

PlaylistNames == {"p1", "p2"}

PlaylistItems == 1..2

\* str.strip().casefold() of the strings in use
StripCasefold(s) ==
    CASE s = "Rock" -> "rock"
      [] s = "Pop" -> "pop"
      [] s = " RO" -> "ro"
      [] OTHER -> s

\* `v in s` for the casefolded strings in use
InString(v, s) == v = s \/ (v = "ro" /\ s = "rock")

\* Item.__eq__, item.py lines 70-74
PlaylistItemEq(a, b) ==
    IF a.has_uri \/ b.has_uri
    THEN a.has_uri = b.has_uri /\ a.uri = b.uri
    ELSE a.name = b.name

\* list.remove(x) on the copy: the list without its first element equal to x
\* (the elements are copies, none is x itself)
ListRemove(attrs, items, x) ==
    LET hits == {k \in DOMAIN items : PlaylistItemEq(attrs[items[k]], attrs[x])}
    IN  IF hits = {} THEN items
        ELSE LET first == CHOOSE k \in hits : \A j \in hits : k <= j
             IN  [k \in 1..(Len(items) - 1) |-> IF k < first THEN items[k] ELSE items[k + 1]]

\* lines 426-433 of get_filtered_playlists: the item has a string value for
\* the tag that contains one of the filter values
FilteredOut(attrs, i, filter_vals) ==
    /\ attrs[i].tag.type = "str"
    /\ \E v \in filter_vals :
          InString(StripCasefold(v), StripCasefold(attrs[i].tag.chars))

RECURSIVE FilterItems(_, _, _, _, _)
\* the loop over playlist.items: items[k..] are still to be looked at
FilterItems(attrs, items, copy, filter_vals, k) ==
    IF k > Len(items) THEN copy
    ELSE FilterItems(attrs, items,
                     IF FilteredOut(attrs, items[k], filter_vals)
                     THEN ListRemove(attrs, copy, items[k]) ELSE copy,
                     filter_vals, k + 1)

\* `include and name not in include) or (exclude and name in exclude)`
RuledOut(n, include, exclude) ==
    \/ (include # {} /\ n \notin include)
    \/ (exclude # {} /\ n \in exclude)

LibraryInit ==
    /\ EarlierIdle
    /\ LaterIdle("lib")
    /\ \E attrs \in [PlaylistItems -> [name : {"x", "y"}, has_uri : BOOLEAN,
            tag : {[type |-> "str", chars |-> "Rock"], [type |-> "str", chars |-> "Pop"],
            [type |-> "int", chars |-> "7"]}]],
          p1 \in UNION {[1..n -> PlaylistItems] : n \in 0..MaxPlaylist},
          include \in {{}, {"p1"}}, exclude \in {{}, {"p2"}},
          filter_vals \in ({{}, {" RO"}, {"pop"}}) :
          /\ attrs[1].name = "x"
          /\ lib = [pc |-> "start",
                    attrs |-> [i \in PlaylistItems |->
                                 [name |-> attrs[i].name, has_uri |-> attrs[i].has_uri,
                                  uri |-> IF attrs[i].has_uri THEN "u1" ELSE "none",
                                  tag |-> attrs[i].tag]],
                    playlists0 |-> [n \in PlaylistNames |-> IF n = "p1" THEN p1 ELSE <<2>>],
                    playlists |-> [n \in PlaylistNames |-> IF n = "p1" THEN p1 ELSE <<2>>],
                    include |-> include, exclude |-> exclude, filter_vals |-> filter_vals,
                    names |-> {},
                    filtered |-> [n \in PlaylistNames |-> <<>>]]

\* get_filtered_playlists(include, exclude, tag=filter_vals), lines 394-440
GetFilteredPlaylists ==
    /\ lib.pc = "start"
    /\ lib' = [lib EXCEPT
                 !.pc = "done",
                 !.names = {n \in PlaylistNames : ~RuledOut(n, lib.include, lib.exclude)},
                 !.filtered = [n \in PlaylistNames |->
                                 IF RuledOut(n, lib.include, lib.exclude) THEN <<>>
                                 ELSE FilterItems(lib.attrs, lib.playlists[n],
                                                  lib.playlists[n], lib.filter_vals, 1)]]
    /\ UNCHANGED <<earlier, xpf, wr, leg, pg, ap, rs, ic>>

SpecLibrary == LibraryInit /\ [][GetFilteredPlaylists]_vars

\* ------------------------------------------------------------- XAutoPF.save
\* A playlist loaded from its file. Tracks are known by their paths; the XML
\* holds the description and the include and exclude paths of the matcher.
\* The matcher holds its include and exclude values and its comparers, given
\* by whether they are set, whether they are ready and the paths they match.
MaxSaves == 2

Paths == {"t1", "t2"}

\* XMLPlaylistParser._get_xml_from_matcher, lines 348-406: the matcher after
\* the call and the output to merge into the XML
ToXml(matcher, items, original) ==
    LET matched == IF matcher.comparers.set
                   THEN IF matcher.comparers.ready
                        THEN original \cap matcher.comparers.matches ELSE {}
                   ELSE items
        exclude == IF matcher.comparers.set THEN matched \ items ELSE matcher.exclude
        include == IF matcher.comparers.set THEN (items \ matched) \ exclude
                   ELSE matcher.include
        include_items == include \cap items
        exclude_items == exclude \cap matched
    IN  [matcher |-> [matcher EXCEPT !.include = include, !.exclude = exclude],
         hasInclude |-> include_items # {}, ExceptionsInclude |-> include_items,
         hasExclude |-> exclude_items # {}, Exceptions |-> exclude_items]

\* merge_maps(source=xml, new=output, extend=False, overwrite=True) followed
\* by nothing else: the keys of the output replace those of the XML
MergeXml(xml, description, out) ==
    [Description |-> description,
     ExceptionsInclude |-> IF out.hasInclude THEN out.ExceptionsInclude
                           ELSE xml.ExceptionsInclude,
     Exceptions |-> IF out.hasExclude THEN out.Exceptions ELSE xml.Exceptions]

\* XAutoPF(path): the file is parsed, the matcher is built from it and the
\* tracks are loaded
XAutoPFInit ==
    /\ EarlierIdle
    /\ LaterIdle("xpf")
    /\ \E include \in SUBSET Paths, exclude \in SUBSET Paths, matches \in SUBSET Paths,
          set \in BOOLEAN, ready \in BOOLEAN :
          /\ ready => set
          /\ ~ready => matches = {}
          /\ LET xml == [Description |-> "d1", ExceptionsInclude |-> include,
                         Exceptions |-> exclude]
                 tracks == (matches \cup include) \ exclude
             IN  xpf = [pc |-> "loaded", file |-> xml, xml |-> xml,
                        description |-> "d1",
                        matcher |-> [include |-> include, exclude |-> exclude,
                                     comparers |-> [set |-> set, ready |-> ready,
                                                    matches |-> matches]],
                        tracks |-> tracks, original |-> tracks,
                        saves |-> 0, dry_run |-> FALSE,
                        result |-> [start |-> 0, final |-> 0]]

\* the user adds a track to or removes a track from the playlist
XAutoPFEdit(t) ==
    /\ xpf.pc = "loaded"
    /\ xpf' = [xpf EXCEPT !.tracks = IF t \in xpf.tracks THEN xpf.tracks \ {t}
                                     ELSE xpf.tracks \cup {t}]
    /\ UNCHANGED <<earlier, lib, wr, leg, pg, ap, rs, ic>>

\* playlist.description = d
XAutoPFDescribe(d) ==
    /\ xpf.pc = "loaded"
    /\ xpf' = [xpf EXCEPT !.description = d]
    /\ UNCHANGED <<earlier, lib, wr, leg, pg, ap, rs, ic>>

\* save(dry_run), lines 132-173, with _update_xml_paths, lines 175-182
XAutoPFSave(dry_run) ==
    /\ xpf.pc = "loaded"
    /\ xpf.saves < MaxSaves
    /\ LET count_start == Cardinality(xpf.original)
           out == ToXml(xpf.matcher, xpf.tracks, xpf.original)
           xml_final == MergeXml(xpf.xml, xpf.description, out)
       IN  xpf' = [xpf EXCEPT
                     !.matcher = out.matcher,
                     !.xml = IF dry_run THEN xpf.xml ELSE xml_final,
                     !.file = IF dry_run THEN xpf.file ELSE xml_final,
                     !.original = IF dry_run THEN xpf.original ELSE xpf.tracks,
                     !.saves = xpf.saves + 1,
                     !.dry_run = dry_run,
                     !.result = [start |-> count_start, final |-> Cardinality(xpf.tracks)]]
    /\ UNCHANGED <<earlier, lib, wr, leg, pg, ap, rs, ic>>

XAutoPFNext ==
    \/ \E t \in Paths : XAutoPFEdit(t)
    \/ \E d \in {"d1", "d2"} : XAutoPFDescribe(d)
    \/ \E dry_run \in BOOLEAN : XAutoPFSave(dry_run)

SpecXAutoPF == XAutoPFInit /\ [][XAutoPFNext]_vars

\* ==================================================================== claims
Occurs(s, i) == Cardinality({k \in DOMAIN s : s[k] = i})

Members(c) == Range(coll[c].items)

\* the items of collection c that carried a URI or the unavailable marker when
\* search was called
Known0(c) == SelectSeq(coll[c].items, LAMBDA i : uri0[i] # NoURI)

AllSkipped(c) == [matched |-> <<>>, unmatched |-> <<>>, skipped |-> coll[c].items]

\* C1: in the result of every collection, each item of the collection appears
\* in exactly one of matched, unmatched and skipped, and nothing else appears.
C1_Partition ==
    \A c \in Colls : fut[c] = "done" =>
        /\ \A i \in Members(c) :
              Occurs(result[c].matched, i) + Occurs(result[c].unmatched, i)
                + Occurs(result[c].skipped, i) = 1
        /\ Range(result[c].matched) \cup Range(result[c].unmatched)
             \cup Range(result[c].skipped) \subseteq Members(c)

\* C2: search only moves an item from unknown to a real URI of a candidate the
\* remote returned for it: an item that had a URI or the unavailable marker
\* when search was called keeps its uri, and no item is set to unavailable.
C2_OnlyUnknownToReal ==
    \A i \in Items :
        \/ uri[i] = uri0[i]
        \/ /\ uri0[i] = NoURI
           /\ uri[i] \in URIs
           /\ uri[i] \in {item[i].remote.trackMatch, item[i].remote.titleMatch}

\* an item was matched and written while an item of the same collection that
\* was known at the call, and for which the remote holds a match, stood by
C2_Witness ==
    /\ mainPc = "returned"
    /\ \E c \in Colls : \E i, j \in Members(c) :
          /\ uri0[i] = NoURI /\ uri[i] \in URIs
          /\ uri0[j] = Unavailable /\ uri[j] = Unavailable

AllReal0 == \A i \in Items : has_uri(uri0[i]) = "True"

C4_SkipIsTerminal ==
    \A c \in Colls : Len(Known0(c)) = Len(coll[c].items) =>
        /\ calls[c] = NoCalls
        /\ fut[c] = "done" => result[c] = AllSkipped(c)

\* C5: when the ALBUM cascade of a collection searched as a unit is exhausted
\* without results, no exception is raised by the unit search.
C5_NoResultsIsSoft ==
    \A c \in Colls :
        (~coll[c].compilation /\ coll[c].album.albumHit = 0 /\ calls[c].album > 0)
            => exc[c] # "unit_responses" /\ fut[c] # "raised"

\* C6: an exception of one item's task during ItemSearch is caught: the task
\* of the collection does not raise, and when it has ended the item is in
\* unmatched and every sibling with a valid match has its URI.
C6_ItemErrorIsolated ==
    \A c \in Colls :
        (\E k \in DOMAIN itasks[c] : itasks[c][k].res = Raise) =>
            /\ exc[c] # "items_item"
            /\ pc[c] = "end" =>
                  /\ fut[c] = "done"
                  /\ \A k \in DOMAIN itasks[c] :
                        /\ itasks[c][k].res = Raise
                              => Occurs(result[c].unmatched, itasks[c][k].item) = 1
                        /\ itasks[c][k].res \in URIs
                              => has_uri(uri[itasks[c][k].item]) = "True"

\* C7: when the kind of a collection searched as a unit cannot be determined,
\* the error ends that collection's task, search() does not return a map, and
\* once it has raised no result map is left.
C7_KindErrorAbortsBatch ==
    \A c \in Colls : exc[c] = "unit_kind" =>
        /\ fut[c] = "raised"
        /\ mainPc \in {"collect", "aborting", "raised"}
        /\ mainPc = "raised" => search_results = <<>>

C7_Witness ==
    /\ mainPc = "raised"
    /\ \E c \in Colls : exc[c] = "unit_kind"
    /\ \E c \in Colls : fut[c] = "done"

\* C8: the result of a collection does not depend on which thread runs first;
\* as its task may run before any other, its skipped items are then, under
\* every interleaving, the items that were known when search was called.
C8_ResultIndependentOfSchedule ==
    \A c \in Colls : fut[c] = "done" => result[c].skipped = Known0(c)

\* C9: a collection searched as a unit makes no TRACK query before its unit
\* search has completed in full: the ALBUM cascade, one extend_items call per
\* response, every title-only match and the commit of every valid match.
C9_UnitBeforeItems ==
    \A c \in Colls : (~coll[c].compilation /\ calls[c].track > 0) =>
        /\ pc[c] \in {"item_tasks", "result", "end"}
        /\ calls[c].album >= 1
        /\ calls[c].extend = IF coll[c].album.albumHit > 0 THEN coll[c].album.albumResp ELSE 0
        /\ \A k \in DOMAIN utasks[c] :
              /\ utasks[c][k].res # Pending
              /\ utasks[c][k].res \in URIs => has_uri(uri[utasks[c][k].item]) = "True"

\* a unit search committed a title match, left an item unknown, and the item
\* search of the same collection then queried for it, while another
\* collection's task was still in its own unit search
C9_Witness ==
    \E c, d \in Colls :
        /\ c # d
        /\ ~coll[c].compilation /\ calls[c].track > 0
        /\ \E k \in DOMAIN utasks[c] : utasks[c][k].res \in URIs
        /\ pc[d] \in {"unit", "extend", "unit_tasks"}

\* C10: the planner queries the field-sets in the order 1, 2, 3, each at most
\* once and the first always, makes no query after one that returned results,
\* and returns the results of its last query (None when that was empty).
C10_Cascade ==
    plan.pc # "none" =>
        /\ Len(plan.queries) <= 3
        /\ plan.pc # "q1" => Len(plan.queries) >= 1 /\ plan.queries[1] = 1
        /\ \A k \in DOMAIN plan.queries :
              /\ plan.queries[k] \in 1..3
              /\ k > 1 => plan.queries[k-1] < plan.queries[k]
              /\ k < Len(plan.queries) => plan.ans[plan.queries[k]] = 0
        /\ plan.pc = "done" =>
              /\ plan.returned = plan.ans[plan.queries[Len(plan.queries)]]
              /\ plan.queries = GetResults(plan.settings, plan.ans).queries
              /\ plan.returned = GetResults(plan.settings, plan.ans).results

\* the planner returned the results of the third query after two empty ones
C10_Witness ==
    /\ plan.pc = "done"
    /\ plan.queries = <<1, 2, 3>>
    /\ plan.returned > 0

\* the single item of compilation collection c: unknown at the call, with a
\* kind, and the remote returns nothing for any field-set of its cascade
SingleNoResults(c) ==
    /\ coll[c].compilation
    /\ Len(coll[c].items) = 1
    /\ uri0[coll[c].items[1]] = NoURI
    /\ item[coll[c].items[1]].hasKind
    /\ item[coll[c].items[1]].remote.trackHit = 0

\* C11: for a compilation collection of a single unknown item for which the
\* remote returns no results for any of the three TRACK field-sets, the task
\* of the item makes exactly 3 queries, and the collection's result has the
\* item in unmatched, none matched, the item's uri still unknown.
C11_ThreeQueriesUnmatched ==
    \A c \in Colls : SingleNoResults(c) =>
        /\ calls[c].track \in {0, 3}
        /\ (itasks[c] # <<>> /\ AllDone(itasks[c])) =>
              /\ calls[c].track = 3
              /\ itasks[c][1].res = NoMatch
        /\ fut[c] = "done" =>
              /\ calls[c].track = 3 /\ calls[c].album = 0
              /\ result[c] = [matched |-> <<>>, unmatched |-> coll[c].items, skipped |-> <<>>]
              /\ uri[coll[c].items[1]] = NoURI

\* search returned the map with such a collection's result in it
C11_Witness ==
    /\ mainPc = "returned"
    /\ \E c \in Colls :
          /\ SingleNoResults(c)
          /\ calls[c].track = 3
          /\ search_results[name(c)].unmatched = coll[c].items

\* no task other than that of collection c can write an item of c: a
\* collection that shares an item with c finds no match for it
Alone(c) ==
    \A d \in Colls \ {c} : \A i \in Members(c) \cap Members(d) :
        /\ item[i].remote.trackMatch \notin URIs
        /\ coll[d].compilation \/ ~coll[d].album.albumMatch

\* collection c is an album searched as a unit, all its tracks unknown at the
\* call; the first album query returns one candidate, which matches, and every
\* track matches one of the candidate's tracks by title
AlbumExactMatch(c) ==
    /\ ~coll[c].compilation /\ coll[c].hasKind
    /\ coll[c].album = Album(1, 1, TRUE)
    /\ \A i \in Members(c) :
          uri0[i] = NoURI /\ item[i].hasKind /\ item[i].remote.titleMatch \in URIs
    /\ Alone(c)

\* C12: for an album of N unknown tracks whose album query returns one exactly
\* matching candidate, the search makes one album query, at most N title-only
\* matches and never a TRACK query, and ends with all N tracks in matched.
C12_AlbumUnitMatch ==
    \A c \in Colls : AlbumExactMatch(c) =>
        /\ calls[c].album <= 1 /\ calls[c].track = 0
        /\ Len(utasks[c]) <= Len(coll[c].items)
        /\ itasks[c] = <<>>
        /\ fut[c] = "done" =>
              /\ calls[c].album = 1 /\ calls[c].extend = 1
              /\ result[c] = [matched |-> coll[c].items, unmatched |-> <<>>, skipped |-> <<>>]
              /\ \A i \in Members(c) : uri[i] = item[i].remote.titleMatch

\* search returned with an album of MaxItems tracks matched as a unit
C12_Witness ==
    /\ mainPc = "returned"
    /\ \E c \in Colls :
          /\ AlbumExactMatch(c)
          /\ Len(coll[c].items) = MaxItems
          /\ search_results[name(c)].matched = coll[c].items
          /\ Len(utasks[c]) = MaxItems

\* the names of the batch in input order, each at its first occurrence
FirstNames ==
    LET firsts == SelectSeq([c \in 1..MaxColls |-> c],
                            LAMBDA c : \A d \in 1..(c - 1) : name(d) # name(c))
    IN  [k \in DOMAIN firsts |-> name(firsts[k])]

\* the last collection of the batch that carries name n
LastNamed(n) == CHOOSE c \in Colls : name(c) = n /\ \A d \in Colls : name(d) = n => d <= c

\* C13 as stated: the map search returns has exactly one entry per input
\* collection, keyed by its name and holding its result, and the keys iterate
\* in the order of the input collections.
C13_OneEntryPerCollection ==
    mainPc = "returned" =>
        /\ Len(order) = MaxColls
        /\ \A c \in Colls :
              /\ order[c] = name(c)
              /\ name(c) \in DOMAIN search_results
              /\ search_results[name(c)] = result[c]

\* C13 as amended: the map search returns is empty when no item was unknown
\* at the call; otherwise it has one entry per name carried by an input
\* collection, holding the result of the last collection of that name, and the
\* keys iterate in the input order of the first collection of each name,
\* under every order of completion of the tasks.
C13_OneEntryPerName ==
    mainPc = "returned" =>
        IF \A i \in Items : uri0[i] # NoURI
        THEN order = <<>> /\ search_results = <<>>
        ELSE /\ order = FirstNames
             /\ DOMAIN search_results = {name(c) : c \in Colls}
             /\ \A n \in DOMAIN search_results : search_results[n] = result[LastNamed(n)]

\* search returned a map of one entry per collection although the task of a
\* later collection had written an item before the first collection's task
\* started
C13_Witness ==
    /\ mainPc = "returned"
    /\ Len(order) = MaxColls
    /\ result[1].skipped # Known0(1)

\* C14: every call of search() that had an item to search has, once it has
\* ended (by returning or by raising), reported the summary exactly once, no
\* task was still pending or running when it was reported, and every
\* collection of the batch is named in it, one whose task failed with zero
\* matched.
C14_SummaryOnce ==
    /\ Len(summary) <= 1
    /\ summary # <<>> => \A c \in Colls : fut[c] \notin {"pending", "running"}
    /\ (mainPc \in {"returned", "raised"} /\ \E i \in Items : uri0[i] = NoURI) =>
          /\ Len(summary) = 1
          /\ \A c \in Colls : \E k \in DOMAIN summary[1].rows :
                /\ summary[1].rows[k].name = name(c)
                /\ fut[c] # "done" => summary[1].rows[k].matched = 0

\* the score of response k of the call, and the positions of the scan at
\* which a candidate reaches the max_score of the configuration of the kind
ScoreOf(k) == mt.responses[k].score

Stops == {p \in DOMAIN mt.results : ScoreOf(mt.results[p]) >= search_settings(mt.kind).max_score}

FirstStop == CHOOSE p \in Stops : \A q \in Stops : p <= q

\* C15: match() is called with the thresholds and the karaoke allowance of the
\* configuration of the kind; it returns None for an empty candidate list and
\* when the best score is below min_score; at the first candidate that scores
\* max_score or more it returns that candidate and evaluates none after it;
\* otherwise it evaluates all and returns one of the highest score.
C15_Thresholds ==
    /\ mt.pc \in {"filter", "scan", "ret", "done"} =>
          /\ mt.min_score = search_settings(mt.kind).min_score
          /\ mt.max_score = search_settings(mt.kind).max_score
          /\ mt.allow_karaoke = search_settings(mt.kind).allow_karaoke
    /\ mt.pc = "done" =>
          IF Stops # {}
          THEN /\ mt.evaluated = SubSeq(mt.results, 1, FirstStop)
               /\ mt.returned = mt.results[FirstStop]
          ELSE /\ mt.evaluated = mt.results
               /\ IF \A p \in DOMAIN mt.results :
                        ScoreOf(mt.results[p]) < search_settings(mt.kind).min_score
                  THEN mt.returned = 0
                  ELSE /\ mt.returned \in Range(mt.results)
                       /\ \A p \in DOMAIN mt.results :
                             ScoreOf(mt.results[p]) <= ScoreOf(mt.returned)

\* an album candidate that reaches ALBUM's max_score but not TRACK's was
\* returned before the last candidate was evaluated
C15_Witness ==
    /\ mt.pc = "done" /\ mt.kind = "ALBUM"
    /\ mt.returned # 0 /\ ScoreOf(mt.returned) = 75
    /\ Len(mt.evaluated) < Len(mt.results)

\* the responses that the karaoke rule leaves as candidates
IsCandidate(k) == ~mt.responses[k].karaoke \/ mt.allow_karaoke \/ mt.itemKaraoke

\* C16 as stated: for every kind the candidates are scanned in the order in
\* which the remote returned them, and no candidate that the remote returned
\* before the selected one has the same score.
C16_ApiOrderEveryKind ==
    mt.pc = "done" =>
        /\ \A p, q \in DOMAIN mt.evaluated : p < q => mt.evaluated[p] < mt.evaluated[q]
        /\ mt.returned # 0 =>
              \A k \in 1..(mt.returned - 1) :
                  IsCandidate(k) => ScoreOf(k) # ScoreOf(mt.returned)

\* response j comes before response k in the scan of the kind: for a track in
\* the remote's order, for an album by the distance of the item count and in
\* the remote's order among responses of equal distance
ScannedBefore(j, k) ==
    IF mt.kind = "ALBUM"
    THEN \/ mt.responses[j].dist < mt.responses[k].dist
         \/ mt.responses[j].dist = mt.responses[k].dist /\ j < k
    ELSE j < k

\* C16 as amended: track candidates are scanned in the order in which the
\* remote returned them; album candidates are scanned in the order of the
\* distance of their item count to the collection's, in the remote's order
\* among those of equal distance; among candidates of equal score the one
\* scanned first is selected.
C16_ScanOrderByKind ==
    mt.pc = "done" =>
        /\ \A p, q \in DOMAIN mt.evaluated :
              p < q => ScannedBefore(mt.evaluated[p], mt.evaluated[q])
        /\ mt.returned # 0 =>
              \A k \in DOMAIN mt.responses :
                  (IsCandidate(k) /\ ScannedBefore(k, mt.returned))
                      => ScoreOf(k) # ScoreOf(mt.returned)

\* of two album candidates of equal score the one returned later by the
\* remote was selected, its item count being closer; and the same for tracks
\* would have selected the first
C16_Witness ==
    /\ mt.pc = "done" /\ mt.kind = "ALBUM" /\ mt.returned # 0
    /\ \E k \in 1..(mt.returned - 1) :
          /\ IsCandidate(k) /\ ScoreOf(k) = ScoreOf(mt.returned)
          /\ mt.responses[k].dist > mt.responses[mt.returned].dist

\* the items of a group that a reporting pass counts as matched
MatchedCount(u) == Cardinality({k \in Slots : has_uri(u[k]) = "True"})

\* C17: a group of the check only goes from Pending to Presented and from
\* Presented to Accepted or Rejected; an accept leaves the group's URIs as they
\* were and an accepted group keeps them for good; in a rejected group every
\* item is unavailable or every item is unknown, none counts as matched, and
\* the group stays so unless a new search call matches one of its items.
C17_GroupLifecycle ==
    [][\A g \in Groups :
        LET a == chk.state[g]
            b == chk'.state[g]
            searched == chk'.searches = chk.searches + 1
        IN  /\ a # b => \/ a = "Pending" /\ b = "Presented"
                        \/ a = "Presented" /\ b \in {"Accepted", "Rejected"}
                        \/ a = "Rejected" /\ b = "Pending" /\ searched
            /\ (a = "Presented" /\ b = "Accepted") => chk'.uri[g] = chk.uri[g]
            /\ a = "Accepted" => b = "Accepted" /\ chk'.uri[g] = chk.uri[g]
            /\ b = "Rejected" =>
                  /\ \/ \A k \in Slots : chk'.uri[g][k] = Unavailable
                     \/ \A k \in Slots : chk'.uri[g][k] = NoURI
                  /\ MatchedCount(chk'.uri[g]) = 0
            /\ (a = "Rejected" /\ ~searched) => b = "Rejected" /\ chk'.uri[g] = chk.uri[g]
      ]_vars

\* after a new search a group that had been rejected as a wrong match was
\* presented again and rejected as unavailable, while another stayed accepted
C17_Witness ==
    /\ chk.pc = "returned" /\ chk.searches = 1
    /\ \E g, h \in Groups :
          /\ chk.state[g] = "Rejected" /\ \A k \in Slots : chk.uri[g][k] = Unavailable
          /\ chk.state[h] = "Accepted" /\ MatchedCount(chk.uri[h]) = GroupSize

Stored(value) ==
    IF value.type # "str" THEN value
    ELSE IF value.json = NoJson THEN MusifyKeyError
    ELSE value.json

\* an entry whose expiry time is in the past is invisible to reads and counted
\* by count(expired=True) only
ExpiredInvisible ==
    /\ \A k \in Keys :
          (repo.rows[k] # NoRow /\ repo.rows[k].expires_at < repo.now) =>
             /\ GetItem(repo.rows, repo.now, k) = MusifyKeyError
             /\ k \notin Iter(repo.rows, repo.now)
    /\ len(repo.rows, repo.now) =
          Cardinality({k \in Keys : repo.rows[k] # NoRow
                                     /\ ~(repo.rows[k].expires_at <= repo.now)})
    /\ count(repo.rows, repo.now, TRUE) =
          Cardinality({k \in Keys : repo.rows[k] # NoRow})

Without(items, i) ==
    [k \in 1..(Len(items) - 1) |-> IF k <= i THEN items[k] ELSE items[k + 1]]

\* C30: pop(i) removes and returns the item at index i for every valid index
\* i, 0 included, and pop() removes and returns the last item; the collection
\* becomes one item shorter and the other items keep their order.
C30_PopIndex ==
    ic.pc = "done" =>
       LET i == IF ic.arg = PyNone THEN Len(ic.before) - 1 ELSE ic.arg.v
       IN  /\ ic.raised = "none"
           /\ ic.ret = ic.before[i + 1]
           /\ ic.items = Without(ic.before, i)

\* C29: when no backups are found restore skips: it never prompts for a backup
\* and restores nothing; when backups exist it restores from a backup the user
\* entered among the available ones, and only the parts confirmed with 'y'.
C29_NoBackupsNoPrompt ==
    /\ (rs.pc # "none" /\ rs.available_backup_names = {}) =>
          /\ rs.prompts = 0
          /\ ~rs.local /\ ~rs.spotify
          /\ rs.pc \in {"start", "returned"}
    /\ (rs.pc \in {"local", "spotify", "returned"} /\ rs.available_backup_names # {}) =>
          rs.restore_from \in rs.available_backup_names

\* the offsets k, k + limit, ... below total
OffsetsFrom(k, limit, total) ==
    [i \in 1..(IF total > k THEN (total - k + limit - 1) \div limit ELSE 0) |->
        k + (i - 1) * limit]

\* C27: given a response that holds the first k items and a `next` link,
\* _get_collection_items requests the remaining pages from offset k on and
\* stops at the page without `next`; the response then holds every item once,
\* in order, and the returned list holds the newly fetched items. A second
\* call on the same response adds no item.
C27_RemainingPages ==
    /\ (pg.pc \in {"loop", "returned"} /\ pg.calls = 0 /\ pg.requests # <<>>) =>
          pg.requests[1] = pg.k
    /\ (pg.pc = "returned" /\ pg.calls = 1) =>
          /\ pg.items = ItemsFrom(0, pg.total)
          /\ pg.results = ItemsFrom(pg.k, pg.total)
          /\ pg.k < pg.total => pg.requests = OffsetsFrom(pg.k, pg.limit, pg.total)
    /\ (pg.pc = "returned" /\ pg.calls = 2) =>
          /\ pg.items = ItemsFrom(0, pg.total)
          /\ pg.results = <<>>

\* a response holding 1 of 4 items was completed by a first call and a second
\* call on it added nothing
C27_Witness ==
    /\ pg.pc = "returned"
    /\ pg.calls = 2
    /\ pg.k = 1 /\ pg.total = 4 /\ pg.limit = 2
    /\ pg.items = <<1, 2, 3, 4>>
    /\ pg.results = <<>>

\* the values hold an item type other than kind
HoldsOtherType(values, kind) ==
    \E i \in DOMAIN values.elems : values.elems[i] \notin {kind, PlainID}

\* C23: validate_item_type(values, kind) raises RemoteItemTypeError exactly
\* when the values hold an item type other than kind; it returns when every
\* value is of type kind or a plain ID, for a single value and for a sequence,
\* a sequence of plain IDs only included.
C23_RaisesOnOtherType ==
    (wr.pc = "done" /\ wr.values.elems # <<>>) =>
       ((wr.raised = RemoteItemTypeError) <=> HoldsOtherType(wr.values, wr.kind))

RECURSIVE PostedBefore(_, _)
\* the URIs posted by the batches before batch i
PostedBefore(posts, i) ==
    IF i <= 1 THEN {} ELSE PostedBefore(posts, i - 1) \cup Range(posts[i - 1])

RECURSIVE PostedCount(_, _)
\* the number of URIs in the first i batches
PostedCount(posts, i) ==
    IF i = 0 THEN 0 ELSE PostedCount(posts, i - 1) + Len(posts[i])

\* the batches hold at most min(max(limit, 1), 50) URIs, the returned number
\* is the number of URIs posted, nothing is posted for no items or on a raise
BatchesAndCount ==
    /\ \A i \in DOMAIN ap.posts :
          Len(ap.posts[i]) >= 1 /\ Len(ap.posts[i]) <= Min(Max(ap.limit, 1), 50)
    /\ ap.raised = "none" => ap.ret = PostedCount(ap.posts, Len(ap.posts))
    /\ ap.items = <<>> => ap.posts = <<>> /\ ap.ret = 0 /\ ap.raised = "none"
    /\ ap.raised # "none" => ap.posts = <<>> /\ ap.tracks = ap.tracks0

\* C28 (as stated): with skip_dupes no POST holds a URI that is in the
\* playlist when the POST is made; batches hold at most min(max(limit, 1), 50)
\* URIs; the returned number is the number of URIs posted; with no items no
\* POST is made and 0 is returned.
C28_NoPostOfPresent ==
    ap.pc = "done" =>
       /\ BatchesAndCount
       /\ ap.skip_dupes =>
             \A i \in DOMAIN ap.posts :
                Range(ap.posts[i]) \cap (Range(ap.tracks0) \cup PostedBefore(ap.posts, i)) = {}

\* C28 (amended): with skip_dupes no POST holds a URI that was in the
\* playlist when the call was made, and every other URI of items is posted as
\* often as it occurs in items; batches hold at most min(max(limit, 1), 50)
\* URIs; the returned number is the number of URIs posted; with no items no
\* POST is made and 0 is returned.
C28_NoPostOfCurrent ==
    ap.pc = "done" =>
       /\ BatchesAndCount
       /\ (ap.skip_dupes /\ ap.raised = "none") =>
             /\ \A i \in DOMAIN ap.posts : Range(ap.posts[i]) \cap Range(ap.tracks0) = {}
             /\ ap.ret = Cardinality({k \in DOMAIN ap.items :
                                        ap.items[k].uri \notin Range(ap.tracks0)})

\* three items, one of them already in the playlist, posted in two batches
\* of one URI each
C28_Witness ==
    /\ ap.pc = "done"
    /\ ap.skip_dupes
    /\ ap.tracks0 = <<"a">>
    /\ Len(ap.items) = 3
    /\ ap.posts = <<(<<"b">>), (<<"b">>)>>
    /\ ap.ret = 2

\* C24: in every summary logged by _log_results the total of each
\* collection's row is that row's matched + unmatched + skipped, and the total
\* of the TOTALS row is total_matched + total_unmatched + total_skipped.
C24_RowTotals ==
    \A k \in DOMAIN summary :
       /\ \A j \in DOMAIN summary[k].rows :
             summary[k].rows[j].total =
                summary[k].rows[j].matched + summary[k].rows[j].unmatched
                + summary[k].rows[j].skipped
       /\ summary[k].total_all =
             summary[k].total_matched + summary[k].total_unmatched
             + summary[k].total_skipped

\* C25: in the legacy ItemSearcher.search the matched, unmatched and skipped
\* lists of a SearchResult are pairwise disjoint; an item still without URI
\* after the search is in unmatched and not in skipped.
C25_LegacyPartition ==
    (leg.pc = "done" /\ leg.returned) =>
       /\ Range(leg.result.matched) \cap Range(leg.result.unmatched) = {}
       /\ Range(leg.result.matched) \cap Range(leg.result.skipped) = {}
       /\ Range(leg.result.unmatched) \cap Range(leg.result.skipped) = {}
       /\ \A t \in Range(leg.result.skipped) : t.has_uri # "None"

\* the only candidates the matcher returns for item i are flagged is_local
LocalOnly(i) ==
    /\ uri0[i] = NoURI
    /\ item[i].remote.trackMatch = Local
    /\ item[i].remote.titleMatch = Local

\* C26: a candidate whose has_uri is false is never committed: the uri of an
\* item for which the matcher returns such a candidate, in the unit search or
\* in the item search, is not written, and the item is in unmatched in the
\* result of every collection that holds it.
C26_LocalNeverCommitted ==
    \A i \in Items : LocalOnly(i) =>
       /\ uri[i] = NoURI
       /\ \A c \in Colls : (fut[c] = "done" /\ i \in Members(c)) =>
             i \in Range(result[c].unmatched)

\* C21: get_filtered_playlists leaves the library's playlists as they were,
\* leaves out the playlists ruled out by include/exclude, and each returned
\* playlist holds the original items, in order, except those with a string
\* tag that contains, case-insensitively, one of the filter values.
C21_FilteredCopies ==
    lib.pc = "done" =>
       /\ lib.playlists = lib.playlists0
       /\ lib.names = {n \in PlaylistNames :
                         /\ lib.include # {} => n \in lib.include
                         /\ lib.exclude # {} => n \notin lib.exclude}
       /\ \A n \in lib.names :
             lib.filtered[n] =
                SelectSeq(lib.playlists0[n],
                          LAMBDA i : ~FilteredOut(lib.attrs, i, lib.filter_vals))

\* C22: save(dry_run=True) leaves the file, the stored XML, the original
\* track list and the matcher's include and exclude lists as they were; only
\* save(dry_run=False) writes the file, replaces the stored XML and resets the
\* original track list to the current tracks; in both modes the result
\* reports the track count of the original list and of the current tracks.
C22_DryRunChangesNothing ==
    [][(xpf.pc = "loaded" /\ xpf'.saves = xpf.saves + 1) =>
          /\ xpf'.result = [start |-> Cardinality(xpf.original),
                            final |-> Cardinality(xpf.tracks)]
          /\ xpf'.tracks = xpf.tracks
          /\ xpf'.dry_run =>
                /\ xpf'.file = xpf.file
                /\ xpf'.xml = xpf.xml
                /\ xpf'.original = xpf.original
                /\ xpf'.matcher.include = xpf.matcher.include
                /\ xpf'.matcher.exclude = xpf.matcher.exclude
          /\ ~xpf'.dry_run =>
                /\ xpf'.file = xpf'.xml
                /\ xpf'.original = xpf.tracks
    ]_vars

====
